---- MODULE Spec2Model ----
(***************************************************************************)
(* A model of the VPFS daemon (vpfs-iroh): the blobs each node keeps in    *)
(* its working directory, the directory codec, the byte-bounded LRU read   *)
(* cache with its snapshot file, the peer connection manager, the remote   *)
(* read path, the namespace resolver and placement, and the client worker  *)
(* of each daemon.                                                         *)
(*                                                                         *)
(* The operations are operators over a "world" record w holding the whole  *)
(* cluster state; an action computes the world an operation leaves and     *)
(* assigns it to the variables.  A request between two daemons (one        *)
(* DaemonRequest and its DaemonResponse on a sub-stream) is one step.      *)
(***************************************************************************)
EXTENDS Integers, Sequences, FiniteSets, TLC

(***************************************************************************)
(* Bounds of the model.                                                    *)
(***************************************************************************)
\* Blobs a run of SpecCache may allocate (the backing files of the cache).
MaxUri == 4
\* Values of the wall clock that stamps modification times: 0..MaxTime.
MaxTime == 1
\* max_cache_size (--cache-size), in bytes.
MaxCache == 3
\* Largest body a cache insert is given in SpecCache.
MaxBody == 4
\* Length of the byte strings a client stores.
MaxData == 1
\* Blobs a run of Spec may allocate on all nodes together.
MaxBlobs == 2
\* Blobs a run of SpecFail may allocate on all nodes together.
MaxBlobsFail == 3
\* Blobs a run of SpecRead may allocate, backing files of the cache included.
MaxBlobsRead == 4
\* Cache inserts of a run of SpecCache that hist records.
MaxHist == 3
\* The File handles a daemon may hold open at once.
MaxOpen == 2
\* The longest read_fd request.
MaxLen == 2
\* The further client workers of CacheNode.
MaxWorkers == 2
\* Blobs a run of SpecLru may allocate, backing files of the cache included.
MaxBlobsLru == 7

(***************************************************************************)
(* Values.                                                                 *)
(***************************************************************************)
Nodes == {"R", "B"}
\* A daemon that is not running when the cluster has come up and joins
\* later; no client of it is modelled.
LateNode == "X"
AllNodes == Nodes \cup {LateNode}
\* The node launched without --root-id.
RootNode == "R"
\* The node whose cache and whose further workers are observed.
CacheNode == "B"
\* The blob named "root" of the root node; allocated names are 1, 2, ...
RootUri == 0

Location(node, uri) == [node |-> node, uri |-> uri]
DirectoryEntry(name, loc, is_dir) == [name |-> name, loc |-> loc, is_dir |-> is_dir]
\* One byte of a body that is no serialized DirectoryEntry.
Byte(b) == [byte |-> b]
IsEntry(item) == "name" \in DOMAIN item
Bytes(k) == [i \in 1..k |-> Byte(k)]

Ok(v) == [kind |-> "Ok", val |-> v]
Err(k) == [kind |-> k]
ErrWith(k, v) == [kind |-> k, val |-> v]

RootLocation == Location(RootNode, RootUri)

(***************************************************************************)
(* Local Store: the files of a node's working directory.                   *)
(***************************************************************************)
FileExists(w, n, u) == u \in DOMAIN w.files[n]
FileData(w, n, u) == w.files[n][u].data
FileSize(w, n, u) == Len(w.files[n][u].data)
FileMtime(w, n, u) == w.files[n][u].mtime

\* fs::write: create or truncate, then write; the file's mtime is the clock.
FsWrite(w, n, u, data) ==
  [w EXCEPT !.files[n] = (u :> [data |-> data, mtime |-> w.now]) @@ @]

\* fs::remove_file: the name is gone; a File handle opened on the blob keeps
\* the bytes the blob had.
FsRemove(w, n, u) ==
  [w EXCEPT !.files[n] = [x \in (DOMAIN @) \ {u} |-> @[x]],
            !.open_files[n] =
               [fd \in DOMAIN @ |->
                  IF @[fd].uri = u /\ ~@[fd].unlinked /\ u \in DOMAIN w.files[n]
                  THEN [@[fd] EXCEPT !.unlinked = TRUE, !.data = w.files[n][u].data]
                  ELSE @[fd]]]

\* A random 64-bit name that names no file yet, created empty.  The model
\* draws the names 1, 2, ... in order: a name is never drawn twice.
create_file_with_random_uri(w, n) ==
  LET u == w.nextUri[n] + 1
  IN  [w |-> FsWrite([w EXCEPT !.nextUri[n] = u], n, u, <<>>), uri |-> u]

read_local(w, n, u) ==
  IF FileExists(w, n, u) THEN Ok(FileData(w, n, u)) ELSE Err("DoesNotExist")

\* write_local in its two file operations, fs::exists and fs::write.  The
\* guard of the file-access lock is a temporary that is dropped at the end
\* of the statement taking it, before either of them.
write_exists(w, n, u) == FileExists(w, n, u)

write_contents(w, n, u, data) ==
  [w |-> FsWrite(w, n, u, data), res |-> Ok(Len(data))]

write_local(w, n, u, data) ==
  IF write_exists(w, n, u)
  THEN write_contents(w, n, u, data)
  ELSE [w |-> w, res |-> Err("DoesNotExist")]

(***************************************************************************)
(* Open files: open_files[n] maps a descriptor to its File, the blob it    *)
(* was opened on and the read position.                                    *)
(***************************************************************************)
NewLine == Byte(10)

Min(a, b) == IF a <= b THEN a ELSE b

\* file.as_raw_fd(): the lowest descriptor the process has free.
RawFd(t) ==
  CHOOSE fd \in 1..(Cardinality(DOMAIN t) + 1) :
    fd \notin DOMAIN t /\ \A k \in 1..(fd - 1) : k \in DOMAIN t

\* The bytes behind the File h of n.
HandleData(w, n, h) ==
  IF h.unlinked THEN h.data
  ELSE IF FileExists(w, n, h.uri) THEN FileData(w, n, h.uri) ELSE <<>>

open_file_local(w, n, uri) ==
  IF FileExists(w, n, uri)
  THEN LET fd == RawFd(w.open_files[n])
       IN  [w |-> [w EXCEPT !.open_files[n] =
                      (fd :> [uri |-> uri, pos |-> 0, unlinked |-> FALSE,
                              data |-> <<>>]) @@ @],
            res |-> Ok(fd)]
  ELSE [w |-> w, res |-> Err("NotFound")]

\* A plausible slip: the buffer is not truncated to the bytes read.
ReadFdNoTruncate(w, n, fd, len) ==
  IF fd \notin DOMAIN w.open_files[n] THEN [w |-> w, res |-> Err("NotFound")]
  ELSE LET h == w.open_files[n][fd]
           data == HandleData(w, n, h)
           k == IF h.pos >= Len(data) THEN 0 ELSE Min(len, Len(data) - h.pos)
       IN  [w |-> [w EXCEPT !.open_files[n][fd].pos = h.pos + k],
            res |-> Ok(SubSeq(data, h.pos + 1, h.pos + k)
                       \o [i \in 1..(len - k) |-> Byte(0)])]

\* file.read into a buffer of len bytes, truncated to the bytes read.
read_fd_local(w, n, fd, len) ==
  IF fd \notin DOMAIN w.open_files[n] THEN [w |-> w, res |-> Err("NotFound")]
  ELSE LET h == w.open_files[n][fd]
           data == HandleData(w, n, h)
           k == IF h.pos >= Len(data) THEN 0 ELSE Min(len, Len(data) - h.pos)
       IN  [w |-> [w EXCEPT !.open_files[n][fd].pos = h.pos + k],
            res |-> Ok(SubSeq(data, h.pos + 1, h.pos + k))]

\* The position after the line that starts after pos: past the next '\n',
\* or the end of the file.
LineEnd(data, pos) ==
  IF \E i \in (pos + 1)..Len(data) : data[i] = NewLine
  THEN CHOOSE i \in (pos + 1)..Len(data) :
         data[i] = NewLine /\ \A j \in (pos + 1)..(i - 1) : data[j] # NewLine
  ELSE IF pos >= Len(data) THEN pos ELSE Len(data)

\* One byte at a time, up to and including '\n' or to the end of the file.
read_line_fd_local(w, n, fd) ==
  IF fd \notin DOMAIN w.open_files[n] THEN [w |-> w, res |-> Err("NotFound")]
  ELSE LET h == w.open_files[n][fd]
           data == HandleData(w, n, h)
           e == LineEnd(data, h.pos)
       IN  [w |-> [w EXCEPT !.open_files[n][fd].pos = e],
            res |-> Ok(SubSeq(data, h.pos + 1, e))]

\* A plausible slip: the File stays in the table.
CloseKeepsFile(w, n, fd) ==
  IF fd \notin DOMAIN w.open_files[n] THEN [w |-> w, res |-> Err("NotFound")]
  ELSE [w |-> w, res |-> Ok(<<>>)]

close_file_local(w, n, fd) ==
  IF fd \notin DOMAIN w.open_files[n] THEN [w |-> w, res |-> Err("NotFound")]
  ELSE [w |-> [w EXCEPT !.open_files[n] = [x \in (DOMAIN @) \ {fd} |-> @[x]]],
        res |-> Ok(<<>>)]

(***************************************************************************)
(* LRU cache: cache[n] lists the entries from least to most recently used. *)
(***************************************************************************)
CacheIndex(c, loc) ==
  IF \E i \in 1..Len(c) : c[i].loc = loc
  THEN CHOOSE i \in 1..Len(c) : c[i].loc = loc
  ELSE 0

RemoveAt(c, i) == SubSeq(c, 1, i - 1) \o SubSeq(c, i + 1, Len(c))

\* LruCache::get on a hit: the entry becomes the most recently used.
CacheGet(c, loc) ==
  LET i == CacheIndex(c, loc)
  IN  IF i = 0 THEN c ELSE Append(RemoveAt(c, i), c[i])

RECURSIVE EvictWhile(_, _, _)
EvictWhile(w, n, budget) ==
  IF w.used[n] > budget /\ w.cache[n] # <<>>
  THEN LET lru == Head(w.cache[n])
           file_size == FileSize(w, n, lru.uri)
           w1 == FsRemove([w EXCEPT !.cache[n] = Tail(@)], n, lru.uri)
       IN  EvictWhile([w1 EXCEPT !.used[n] = @ - file_size], n, budget)
  ELSE w

\* A plausible slip: one eviction per insert instead of a loop.
EvictOnce(w, n) ==
  IF w.used[n] > MaxCache /\ w.cache[n] # <<>>
  THEN LET lru == Head(w.cache[n])
           file_size == FileSize(w, n, lru.uri)
           w1 == FsRemove([w EXCEPT !.cache[n] = Tail(@)], n, lru.uri)
       IN  [w1 EXCEPT !.used[n] = @ - file_size]
  ELSE w

\* A plausible slip: the loop stops one byte late.
EvictLate(w, n) == EvictWhile(w, n, MaxCache + 1)

\* A plausible slip: pop_mru in place of pop_lru.
RECURSIVE EvictNewest(_, _)
EvictNewest(w, n) ==
  IF w.used[n] > MaxCache /\ w.cache[n] # <<>>
  THEN LET c == w.cache[n]
           mru == c[Len(c)]
           file_size == FileSize(w, n, mru.uri)
           w1 == FsRemove([w EXCEPT !.cache[n] = SubSeq(c, 1, Len(c) - 1)], n, mru.uri)
       IN  EvictNewest([w1 EXCEPT !.used[n] = @ - file_size], n)
  ELSE w

\* The eviction loop of add_cache_entry.
Evict(w, n) == EvictWhile(w, n, MaxCache)

Reverse(s) == [i \in 1..Len(s) |-> s[Len(s) + 1 - i]]

\* The snapshot file "cache": used_cache_bytes, then the entries as
\* LruCache::iter yields them, most recently used first.
Persist(w, n) ==
  [w EXCEPT !.snap[n] = [exists |-> TRUE, used |-> w.used[n],
                         entries |-> Reverse(w.cache[n])]]

\* A plausible slip: evict-then-insert, making room before the entry is put.
InsertAfterEvict(w, n, loc, data) ==
  LET w0 == EvictWhile(w, n, MaxCache - Len(data))
      c == w0.cache[n]
      i == CacheIndex(c, loc)
      w1 == IF i > 0
            THEN FsWrite([w0 EXCEPT !.cache[n] = CacheGet(c, loc)], n, c[i].uri, data)
            ELSE LET a == create_file_with_random_uri(w0, n)
                 IN  [FsWrite(a.w, n, a.uri, data) EXCEPT
                        !.cache[n] = Append(@, [loc |-> loc, uri |-> a.uri])]
  IN  Persist([w1 EXCEPT !.used[n] = @ + Len(data)], n)

add_cache_entry(w, n, loc, data) ==
  LET c == w.cache[n]
      i == CacheIndex(c, loc)
      w1 == IF i > 0
            THEN FsWrite([w EXCEPT !.cache[n] = CacheGet(c, loc)], n, c[i].uri, data)
            ELSE LET a == create_file_with_random_uri(w, n)
                 IN  [FsWrite(a.w, n, a.uri, data) EXCEPT
                        !.cache[n] = Append(@, [loc |-> loc, uri |-> a.uri])]
      w2 == [w1 EXCEPT !.used[n] = @ + Len(data)]
  IN  Persist(Evict(w2, n), n)

\* A plausible slip: put without demote, so that the entry read last ends up
\* the most recently used one.
RECURSIVE RestoreNoDemote(_, _)
RestoreNoDemote(entries, c) ==
  IF entries = <<>> THEN c
  ELSE RestoreNoDemote(Tail(entries), Append(c, Head(entries)))

\* put then demote, entry by entry: each entry read becomes the least
\* recently used one.
RECURSIVE RestoreEntries(_, _)
RestoreEntries(entries, c) ==
  IF entries = <<>> THEN c
  ELSE RestoreEntries(Tail(entries), <<Head(entries)>> \o c)

restore_cache(w, n) ==
  IF w.snap[n].exists
  THEN [w EXCEPT !.used[n] = w.snap[n].used,
                 !.cache[n] = RestoreEntries(w.snap[n].entries, <<>>)]
  ELSE w

\* Sum of the sizes of the backing files of the cache entries of n.
RECURSIVE BackingBytes(_, _, _)
BackingBytes(w, n, c) ==
  IF c = <<>> THEN 0
  ELSE (IF FileExists(w, n, Head(c).uri) THEN FileSize(w, n, Head(c).uri) ELSE 0)
       + BackingBytes(w, n, Tail(c))

(***************************************************************************)
(* Directory codec.  A directory blob is a sequence of serialized          *)
(* DirectoryEntry records; reading stops at the first record that does not *)
(* decode.                                                                 *)
(***************************************************************************)
RECURSIVE search_directory_with_reader(_, _)
search_directory_with_reader(file_name, data) ==
  IF data = <<>> \/ ~IsEntry(Head(data)) THEN Err("DoesNotExist")
  ELSE IF Head(data).name = file_name THEN Ok(Head(data))
  ELSE search_directory_with_reader(file_name, Tail(data))

\* File::open(directory_uri).unwrap(): a missing blob panics.
search_directory(w, n, file_name, uri) ==
  IF FileExists(w, n, uri)
  THEN search_directory_with_reader(file_name, FileData(w, n, uri))
  ELSE Err("Panic")

\* A plausible slip: append without looking for the name first.
AppendUnchecked(w, n, directory, new_entry) ==
  IF ~FileExists(w, n, directory) THEN [w |-> w, res |-> Err("Panic")]
  ELSE [w |-> FsWrite(w, n, directory, Append(FileData(w, n, directory), new_entry)),
        res |-> Ok(<<>>)]

append_dir_entry(w, n, directory, new_entry) ==
  IF ~FileExists(w, n, directory) THEN [w |-> w, res |-> Err("Panic")]
  ELSE LET found == search_directory_with_reader(new_entry.name, FileData(w, n, directory))
       IN  IF found.kind = "Ok"
           THEN [w |-> w, res |-> ErrWith("AlreadyExists", found.val)]
           ELSE [w |-> FsWrite(w, n, directory,
                               Append(FileData(w, n, directory), new_entry)),
                 res |-> Ok(<<>>)]

(***************************************************************************)
(* Peer connection manager.  conns[n][p] is the connection n stored for p: *)
(* "live"; "lost" when p stopped and n has not noticed (a sub-stream still *)
(* opens, the response never comes); "closed" once n has noticed (opening  *)
(* a sub-stream fails).  A node keeps its endpoint identity over restarts. *)
(***************************************************************************)
\* The daemon process of n stops: its memory is gone, its files stay, and
\* the connections its peers hold to it are dead.
StopNode(w, n) ==
  [w EXCEPT !.up[n] = FALSE,
            !.cache[n] = <<>>,
            !.used[n] = 0,
            !.hosts[n] = [init |-> FALSE, names |-> {}],
            !.open_files[n] = <<>>,
            !.conns = [m \in DOMAIN w.conns |->
                         IF m = n THEN <<>>
                         ELSE [p \in DOMAIN w.conns[m] |->
                                 IF p = n /\ w.conns[m][p] = "live" THEN "lost"
                                 ELSE w.conns[m][p]]]]

\* endpoint.connect, open_bi and the DaemonHello exchange.
establish_connection(w, node) == w.up[node]

StoreConnection(w, n, node) ==
  [w EXCEPT !.conns[n] = (node :> "live") @@ @]

\* The root's answer to AddressFor(node_name).
AddressFor(w, node_name) == node_name \in w.hosts[RootNode].names

\* A plausible slip: after the AddressFor exchange the peer is dialled
\* whatever the root answered.
stream_for_any_answer(w, n, node_name) ==
  IF node_name \in DOMAIN w.conns[n]
  THEN [w |-> w, conn |-> w.conns[n][node_name]]
  ELSE IF ~w.hosts[n].init
  THEN [w |-> w, conn |-> "panic"]
  ELSE IF node_name \in w.hosts[n].names /\ establish_connection(w, node_name)
  THEN [w |-> StoreConnection(w, n, node_name), conn |-> "live"]
  ELSE IF n = RootNode
  THEN [w |-> w, conn |-> "none"]
  ELSE IF /\ RootNode \in DOMAIN w.conns[n]
          /\ w.conns[n][RootNode] = "live"
          /\ establish_connection(w, node_name)
  THEN [w |-> StoreConnection(w, n, node_name), conn |-> "live"]
  ELSE [w |-> w, conn |-> "none"]

stream_for(w, n, node_name) ==
  IF node_name \in DOMAIN w.conns[n]
  THEN [w |-> w, conn |-> w.conns[n][node_name]]
  ELSE IF ~w.hosts[n].init
  THEN [w |-> w, conn |-> "panic"]
  ELSE IF node_name \in w.hosts[n].names /\ establish_connection(w, node_name)
  THEN [w |-> StoreConnection(w, n, node_name), conn |-> "live"]
  ELSE IF n = RootNode
  THEN [w |-> w, conn |-> "none"]
  ELSE IF /\ RootNode \in DOMAIN w.conns[n]
          /\ w.conns[n][RootNode] = "live"
          /\ AddressFor(w, node_name)
          /\ establish_connection(w, node_name)
  THEN [w |-> StoreConnection(w, n, node_name), conn |-> "live"]
  ELSE [w |-> w, conn |-> "none"]

\* The nodes stream_for calls establish_connection on: the peer when
\* known_hosts maps its name, and when the root answered Some(id).
dialed(w, n, node_name) ==
  IF node_name \in DOMAIN w.conns[n] \/ ~w.hosts[n].init
  THEN {}
  ELSE IF node_name \in w.hosts[n].names
  THEN {node_name}
  ELSE IF /\ n # RootNode
          /\ RootNode \in DOMAIN w.conns[n]
          /\ w.conns[n][RootNode] = "live"
          /\ AddressFor(w, node_name)
  THEN {node_name}
  ELSE {}

(***************************************************************************)
(* Peer dispatch: one DaemonRequest served by node p.                      *)
(***************************************************************************)
\* A plausible slip: the body is sent only when the blob is strictly newer
\* than the requester's copy.
ServeReadIfNewer(w, p, uri, last_modified) ==
  LET should_send ==
        IF last_modified.some /\ FileExists(w, p, uri)
        THEN FileMtime(w, p, uri) > last_modified.t
        ELSE TRUE
  IN  IF ~should_send THEN Err("NotModified") ELSE read_local(w, p, uri)

\* The Read arm: NotModified when the requester's copy is newer than the blob.
ServeRead(w, p, uri, last_modified) ==
  LET should_send ==
        IF last_modified.some /\ FileExists(w, p, uri)
        THEN FileMtime(w, p, uri) >= last_modified.t
        ELSE TRUE
  IN  IF ~should_send THEN Err("NotModified") ELSE read_local(w, p, uri)

\* rsp: the Result the DaemonResponse carries, variant: its variant.  The
\* last arm is "Ok(_) => eprintln!": nothing is sent.
handle_daemon(w, p, req) ==
  CASE req.type = "Place" ->
         LET a == create_file_with_random_uri(w, p)
         IN  [w |-> a.w, rsp |-> Ok(a.uri), variant |-> "Place"]
    [] req.type = "Open" ->
         LET r == open_file_local(w, p, req.uri)
         IN  [w |-> r.w,
              rsp |-> IF r.res.kind = "Ok" THEN r.res ELSE Err("DoesNotExist"),
              variant |-> "Open"]
    [] req.type = "Read" ->
         [w |-> w, rsp |-> ServeRead(w, p, req.uri, req.last_modified),
          variant |-> "Read"]
    [] req.type = "Write" ->
         LET r == write_local(w, p, req.uri, req.data)
         IN  [w |-> r.w, rsp |-> r.res, variant |-> "Write"]
    [] req.type = "AppendDirectoryEntry" ->
         LET r == append_dir_entry(w, p, req.uri, req.entry)
         IN  [w |-> r.w, rsp |-> r.res, variant |-> "AppendDirectoryEntry"]
    [] req.type = "Remove" ->
         IF FileExists(w, p, req.uri)
         THEN [w |-> FsRemove(w, p, req.uri), rsp |-> Ok(<<>>), variant |-> "Remove"]
         ELSE [w |-> w, rsp |-> Err("DoesNotExist"), variant |-> "Remove"]
    [] req.type = "AddressFor" ->
         [w |-> w,
          rsp |-> Ok(w.hosts[p].init /\ req.node_name \in w.hosts[p].names),
          variant |-> "AddressFor"]
    [] OTHER -> [w |-> w, rsp |-> [kind |-> "None"], variant |-> "None"]

\* A panic in a worker or handler of n: the locks it held are poisoned and
\* every later file or cache operation of n panics on them; n serves
\* nothing more until it is restarted.
PanicAt(w, n) == StopNode(w, n)

\* The request req answered by node_name over the stream s; a handler that
\* panics answers nothing.
exchange(s, node_name, req) ==
  IF s.conn = "panic" THEN [w |-> s.w, rsp |-> Err("Panic")]
  ELSE IF s.conn = "live"
  THEN IF handle_daemon(s.w, node_name, req).rsp.kind = "Panic"
       THEN [w |-> PanicAt(s.w, node_name), rsp |-> Err("Fail")]
       ELSE handle_daemon(s.w, node_name, req)
  ELSE [w |-> s.w, rsp |-> Err("Fail")]

\* Err("Fail") stands for the anyhow error of send_and_receive.
send_and_receive(w, n, node_name, req) ==
  exchange(stream_for(w, n, node_name), node_name, req)

(***************************************************************************)
(* Remote read path.                                                       *)
(***************************************************************************)
\* A plausible slip: peek in place of get, the lookup leaves the order.
cache_peek(w, n, location) == w

\* The lookup that opens read_remote: cache.get marks the entry used.
cache_lookup(w, n, location) ==
  [w EXCEPT !.cache[n] = CacheGet(@, location)]

\* read_remote once stream_for has answered s; c is the cache before the
\* lookup.
read_over(s, c, n, location) ==
  LET i == CacheIndex(c, location)
      cache_last_update_time ==
        IF i > 0 /\ FileExists(s.w, n, c[i].uri)
        THEN [some |-> TRUE, t |-> FileMtime(s.w, n, c[i].uri)]
        ELSE [some |-> FALSE, t |-> 0]
      rsp == ServeRead(s.w, location.node, location.uri, cache_last_update_time)
  IN  CASE s.conn = "panic" -> [w |-> s.w, res |-> Err("Panic")]
        [] s.conn = "live" ->
             IF rsp.kind = "Ok"
             THEN [w |-> add_cache_entry(s.w, n, location, rsp.val), res |-> rsp]
             ELSE IF rsp.kind = "NotModified"
             THEN [w |-> s.w,
                   res |-> IF FileExists(s.w, n, c[i].uri)
                           THEN Ok(FileData(s.w, n, c[i].uri))
                           ELSE Err("Panic")]
             ELSE [w |-> s.w, res |-> rsp]
        \* the sub-stream opens and the response never comes: todo!()
        [] s.conn = "lost" -> [w |-> s.w, res |-> Err("Panic")]
        \* open_bi fails
        [] s.conn = "closed" -> [w |-> s.w, res |-> Err("NotAccessible")]
        [] s.conn = "none" ->
             [w |-> s.w,
              res |-> IF i > 0
                      THEN ErrWith("OnlyInCache", Location(n, c[i].uri))
                      ELSE Err("NotAccessible")]

read_remote(w, n, location) ==
  read_over(stream_for(cache_lookup(w, n, location), n, location.node),
            w.cache[n], n, location)

(***************************************************************************)
(* Namespace resolver.  A path is the sequence of its components.          *)
(* recursive_find returns the world it leaves (the cache changes), the     *)
(* result, and "degraded": whether some directory of the walk was taken    *)
(* from the cache because read_remote returned OnlyInCache.                *)
(***************************************************************************)
\* A plausible slip: a degraded lookup returned as a plain success.
NoDegrade(r) == r

\* if let Ok(dir_entry) = dir_entry { Err(CacheNeededForTraversal(dir_entry)) }
Degrade(r) ==
  IF r.kind = "Ok" THEN ErrWith("CacheNeededForTraversal", r.val) ELSE r

\* A plausible slip: no is_dir check in the CacheNeededForTraversal arm.
DescendIfDegraded(parent_dir_entry, degraded_arm) ==
  degraded_arm \/ parent_dir_entry.is_dir

\* if !parent_dir_entry.is_dir { return Err(NotADirectory) }, in both arms.
MayDescend(parent_dir_entry, degraded_arm) == parent_dir_entry.is_dir

\* The search of a remote directory once read_remote has answered rr.
search_fetched(rr, n, file_name, degraded_arm, degraded) ==
  CASE rr.res.kind = "Ok" ->
         [w |-> rr.w,
          res |-> IF degraded_arm
                  THEN Degrade(search_directory_with_reader(file_name, rr.res.val))
                  ELSE search_directory_with_reader(file_name, rr.res.val),
          degraded |-> degraded]
    [] rr.res.kind = "OnlyInCache" ->
         [w |-> rr.w,
          res |-> Degrade(search_directory(rr.w, n, file_name, rr.res.val.uri)),
          degraded |-> TRUE]
    [] OTHER -> [w |-> rr.w, res |-> rr.res, degraded |-> degraded]

\* Fetch the directory at a remote location and search it.
SearchRemote(w, n, location, file_name, degraded_arm, degraded) ==
  search_fetched(read_remote(w, n, location), n, file_name, degraded_arm, degraded)

\* The search for file_name once the parent has been resolved.
find_under(parent, n, file_name) ==
  IF parent.res.kind \in {"Ok", "CacheNeededForTraversal"}
  THEN LET parent_dir_entry == parent.res.val
           degraded_arm == parent.res.kind = "CacheNeededForTraversal"
       IN  IF ~MayDescend(parent_dir_entry, degraded_arm)
           THEN [w |-> parent.w, res |-> Err("NotADirectory"),
                 degraded |-> parent.degraded]
           ELSE IF parent_dir_entry.loc.node = n
           THEN [w |-> parent.w,
                 res |-> IF degraded_arm
                         THEN Degrade(search_directory(parent.w, n, file_name,
                                                       parent_dir_entry.loc.uri))
                         ELSE search_directory(parent.w, n, file_name,
                                               parent_dir_entry.loc.uri),
                 degraded |-> parent.degraded]
           ELSE SearchRemote(parent.w, n, parent_dir_entry.loc, file_name,
                             degraded_arm, parent.degraded)
  ELSE parent

RECURSIVE recursive_find(_, _, _)
recursive_find(w, n, file) ==
  IF Len(file) > 1
  THEN find_under(recursive_find(w, n, SubSeq(file, 1, Len(file) - 1)), n,
                  file[Len(file)])
  ELSE IF n = RootNode
  THEN [w |-> w, res |-> search_directory(w, n, file[1], RootUri), degraded |-> FALSE]
  ELSE SearchRemote(w, n, RootLocation, file[1], FALSE, FALSE)

(***************************************************************************)
(* Placement, in the steps of place_file.                                  *)
(***************************************************************************)
\* Step 1: a fresh blob on node "at".
allocated(a) == [w |-> a.w, res |-> Ok(a.uri)]

placed(r) ==
  IF r.rsp.kind \in {"Ok", "Panic"}
  THEN [w |-> r.w, res |-> r.rsp]
  ELSE [w |-> r.w, res |-> Err("NotAccessible")]

place_allocate(w, n, at) ==
  IF at = n
  THEN allocated(create_file_with_random_uri(w, n))
  ELSE placed(send_and_receive(w, n, at, [type |-> "Place"]))

\* Step 2: the location of the parent directory.  Any error of the walk,
\* CacheNeededForTraversal included, is returned by "?".
parent_location(f) ==
  IF f.res.kind = "Ok"
  THEN [w |-> f.w, res |-> Ok(f.res.val.loc)]
  ELSE [w |-> f.w, res |-> f.res]

place_parent(w, n, path) ==
  IF Len(path) > 1
  THEN parent_location(recursive_find(w, n, SubSeq(path, 1, Len(path) - 1)))
  ELSE [w |-> w, res |-> Ok(RootLocation)]

\* Step 3: the entry is appended to the parent directory.
appended(r) ==
  IF r.rsp.kind = "Fail"
  THEN [w |-> r.w, res |-> Err("Other")]
  ELSE [w |-> r.w, res |-> r.rsp]

place_append(w, n, parent_directory_location, dir_entry) ==
  IF parent_directory_location.node = n
  THEN append_dir_entry(w, n, parent_directory_location.uri, dir_entry)
  ELSE appended(send_and_receive(w, n, parent_directory_location.node,
                                 [type |-> "AppendDirectoryEntry",
                                  uri |-> parent_directory_location.uri,
                                  entry |-> dir_entry]))

\* Step 4, a new directory: its "." and ".." entries; the results are dropped.
place_dots(w, n, new_file_location, parent_directory_location) ==
  LET dot == DirectoryEntry(".", new_file_location, TRUE)
      dot_dot == DirectoryEntry("..", parent_directory_location, TRUE)
  IN  IF new_file_location.node = n
      THEN LET r1 == append_dir_entry(w, n, new_file_location.uri, dot)
           IN  append_dir_entry(r1.w, n, new_file_location.uri, dot_dot).w
      ELSE LET r1 == send_and_receive(w, n, new_file_location.node,
                       [type |-> "AppendDirectoryEntry",
                        uri |-> new_file_location.uri, entry |-> dot])
           IN  send_and_receive(r1.w, n, new_file_location.node,
                       [type |-> "AppendDirectoryEntry",
                        uri |-> new_file_location.uri, entry |-> dot_dot]).w

\* A plausible slip: no rollback.
NoRollback(w, n, new_file_location) == w

\* A plausible slip: the rollback of a blob on another node is left out.
RollbackLocalOnly(w, n, new_file_location) ==
  IF new_file_location.node = n
  THEN FsRemove(w, n, new_file_location.uri)
  ELSE w

\* Step 4, the append failed: remove the new blob; the result is dropped.
place_rollback(w, n, new_file_location) ==
  IF new_file_location.node = n
  THEN FsRemove(w, n, new_file_location.uri)
  ELSE send_and_receive(w, n, new_file_location.node,
                        [type |-> "Remove", uri |-> new_file_location.uri]).w

(***************************************************************************)
(* Client dispatch: Read and Write of a Location.                          *)
(***************************************************************************)
handle_client_read(w, n, location) ==
  IF location.node = n
  THEN [w |-> w, res |-> read_local(w, n, location.uri)]
  ELSE read_remote(w, n, location)

\* The remote Write over the stream s.  Err("Hang"): no ClientResponse is
\* written, the client waits for ever.
write_over(s, location, data) ==
  CASE s.conn = "panic" -> [w |-> s.w, res |-> Err("Panic")]
    [] s.conn = "none" -> [w |-> s.w, res |-> Err("NotAccessible")]
    [] s.conn = "live" ->
         [w |-> handle_daemon(s.w, location.node,
                   [type |-> "Write", uri |-> location.uri, data |-> data]).w,
          res |-> handle_daemon(s.w, location.node,
                   [type |-> "Write", uri |-> location.uri, data |-> data]).rsp]
    [] OTHER -> [w |-> s.w, res |-> Err("Hang")]

handle_client_write(w, n, location, data) ==
  IF location.node = n
  THEN write_local(w, n, location.uri, data)
  ELSE write_over(stream_for(w, n, location.node), location, data)

(***************************************************************************)
(* Descriptor operations: open_file, read_fd, read_line_fd, close_file.    *)
(***************************************************************************)
\* The request req sent to node_name over the stream s; a sub-stream that
\* ends without a DaemonResponse runs into todo!().
fd_response(r) ==
  IF r.rsp.kind = "None"
  THEN [w |-> r.w, res |-> Err("Panic")]
  ELSE [w |-> r.w, res |-> r.rsp]

fd_over(s, node_name, req) ==
  CASE s.conn = "live" -> fd_response(handle_daemon(s.w, node_name, req))
    [] s.conn \in {"panic", "lost"} -> [w |-> s.w, res |-> Err("Panic")]
    [] OTHER -> [w |-> s.w, res |-> Err("NotAccessible")]

\* The io::Error of a local operation becomes the VPFSError e.
local_result(r, e) ==
  IF r.res.kind = "Ok" THEN r ELSE [w |-> r.w, res |-> Err(e)]

open_file(w, n, location) ==
  IF location.node = n
  THEN local_result(open_file_local(w, n, location.uri), "DoesNotExist")
  ELSE fd_over(stream_for(w, n, location.node), location.node,
               [type |-> "Open", uri |-> location.uri])

read_fd(w, n, location, fd, len) ==
  IF location.node = n
  THEN local_result(read_fd_local(w, n, fd, len), "FileNotOpen")
  ELSE fd_over(stream_for(w, n, location.node), location.node,
               [type |-> "ReadFd", fd |-> fd, len |-> len])

read_line_fd(w, n, location, fd) ==
  IF location.node = n
  THEN local_result(read_line_fd_local(w, n, fd), "FileNotOpen")
  ELSE fd_over(stream_for(w, n, location.node), location.node,
               [type |-> "ReadLineFd", fd |-> fd])

close_file(w, n, node_name, fd) ==
  IF node_name = n
  THEN local_result(close_file_local(w, n, fd), "FileNotOpen")
  ELSE fd_over(stream_for(w, n, node_name), node_name, [type |-> "Close", fd |-> fd])

(***************************************************************************)
(* Client library: fetch(name) is find(name)? then read(location).         *)
(***************************************************************************)
fetch_read(f, n) ==
  IF f.res.kind = "Ok" THEN handle_client_read(f.w, n, f.res.val.loc).res ELSE f.res

fetch(w, n, name) == fetch_read(recursive_find(w, n, name), n)

(***************************************************************************)
(* State.                                                                  *)
(***************************************************************************)
VARIABLES
  up,       \* up[n]: the daemon process of n is running
  files,    \* files[n]: blob name -> [data, mtime], the working directory
  nextUri,  \* nextUri[n]: blob names drawn so far on n
  cache,    \* cache[n]: <<[loc, uri], ...>>, least recently used first
  used,     \* used[n]: used_cache_bytes
  snap,     \* snap[n]: the snapshot file "cache"
  conns,    \* conns[n]: node name -> state of the stored connection
  hosts,    \* hosts[n]: known_hosts, [init, names]; init FALSE is None
  now,      \* the wall clock
  open_files, \* open_files[n]: descriptor -> [uri, pos, unlinked, data], the
            \* File handles of n; data: the bytes of a handle whose blob
            \* was removed
  cl,       \* cl[n]: the worker serving the client of daemon n
  out,      \* the ClientResponse written by the last step, if any
  quota,    \* the number of blobs the run may allocate
  lastIns,  \* the last cache insert made directly: [node, size, hit]
  hist,     \* the cache inserts made directly so far, oldest first, while
            \* they are at most MaxHist: <<[loc, size], ...>>
  held,     \* the last OnlyInCache(cache_loc) a client was given:
            \* [some, node, of, loc, body], body the body last fetched for
            \* the Location "of" by node
  wk,       \* wk[k]: the worker serving the k-th further client of CacheNode
  recent    \* when recent.on: order, the Locations the worker of CacheNode
            \* has asked read_remote for, least recently asked first, over
            \* all runs of the daemon; run, those asked for since the
            \* daemon was last started

vars ==
  <<up, files, nextUri, cache, used, snap, conns, hosts, now, open_files, cl, out,
    quota, lastIns, hist, held, wk, recent>>

World ==
  [up |-> up, files |-> files, nextUri |-> nextUri, cache |-> cache,
   used |-> used, snap |-> snap, conns |-> conns, hosts |-> hosts, now |-> now,
   open_files |-> open_files]

SetWorld(w) ==
  /\ up' = w.up
  /\ files' = w.files
  /\ nextUri' = w.nextUri
  /\ cache' = w.cache
  /\ used' = w.used
  /\ snap' = w.snap
  /\ conns' = w.conns
  /\ hosts' = w.hosts
  /\ now' = w.now
  /\ open_files' = w.open_files

\* The blobs allocated so far, files of the cache included.
Allocated(w) == w.nextUri["R"] + w.nextUri["B"] + w.nextUri[LateNode]

InBounds(w) == Allocated(w) <= quota

NoInsert == [node |-> "", size |-> 0, hit |-> FALSE]
\* hist once more than MaxHist inserts were made.
TooMany == <<[loc |-> Location("", 0), size |-> 0]>>
NoLocation == Location("", 0)
NotHeld ==
  [some |-> FALSE, node |-> "", of |-> Location("", 0), loc |-> Location("", 0),
   body |-> <<>>]
NoResult == [kind |-> "None"]

\* A worker waiting for the next ClientRequest.  In a request, op, path,
\* data, fd and len are the request; loc, parent and succ are the locals
\* new_file_location, parent_directory_location and success of place_file,
\* and res is the response of the place that opens a store.
IdleClient ==
  [pc |-> "idle", op |-> "none", path |-> <<>>, data |-> <<>>, fd |-> 0, len |-> 0,
   loc |-> NoLocation, parent |-> NoLocation, succ |-> NoResult, res |-> NoResult]

NoResponse ==
  [node |-> "", op |-> "none", path |-> <<>>, data |-> <<>>, fd |-> 0, len |-> 0,
   loc |-> NoLocation, res |-> NoResult]

\* The response res to the request c of n's client (loc: the Location the
\* request was about, where it has one).
Response(n, c, loc, res) ==
  [node |-> n, op |-> c.op, path |-> c.path, data |-> c.data, fd |-> c.fd,
   len |-> c.len, loc |-> loc, res |-> res]

Workers == 1..MaxWorkers

\* The further workers of CacheNode in world w: those of a stopped daemon
\* are gone.
WorkersIn(w) ==
  IF w.up[CacheNode] THEN wk ELSE [k \in Workers |-> IdleClient]

\* The root directory main creates: its "." and ".." links.
RootDirInit ==
  <<DirectoryEntry(".", RootLocation, TRUE), DirectoryEntry("..", RootLocation, TRUE)>>

\* The cluster after bring-up: the root started first, then every other
\* node of Nodes, whose RootHello the root answered; LateNode has not been
\* started yet.
Cluster ==
  /\ up = [n \in AllNodes |-> n \in Nodes]
  /\ cache = [n \in AllNodes |-> <<>>]
  /\ used = [n \in AllNodes |-> 0]
  /\ snap = [n \in AllNodes |-> [exists |-> FALSE, used |-> 0, entries |-> <<>>]]
  /\ conns = [n \in AllNodes |-> <<>>]
  /\ hosts = [n \in AllNodes |->
                [init |-> n \in Nodes,
                 names |-> IF n = RootNode THEN Nodes \ {RootNode}
                           ELSE IF n \in Nodes THEN Nodes ELSE {}]]
  /\ now = 0
  /\ open_files = [n \in AllNodes |-> <<>>]
  /\ cl = [n \in AllNodes |-> IdleClient]
  /\ out = NoResponse
  /\ lastIns = NoInsert
  /\ hist = <<>>
  /\ held = NotHeld
  /\ wk = [k \in Workers |-> IdleClient]

\* No blob has been placed yet.
Start ==
  /\ Cluster
  /\ files = [n \in AllNodes |->
                IF n = RootNode THEN (RootUri :> [data |-> RootDirInit, mtime |-> 0])
                ELSE <<>>]
  /\ nextUri = [n \in AllNodes |-> 0]

\* Specifications that do not record the requests for remote blobs.
NotRecorded == [on |-> FALSE, order |-> <<>>, run |-> {}]

Init == Start /\ quota = MaxBlobs /\ recent = NotRecorded

\* The wall clock advances.  Only SpecRead takes this step: in the other
\* specifications every blob is stamped 0, and a conditional read is always
\* answered with the body.
Tick ==
  /\ now < MaxTime
  /\ now' = now + 1
  /\ out' = NoResponse
  /\ UNCHANGED <<up, files, nextUri, cache, used, snap, conns, hosts, open_files, cl,
               quota, lastIns, hist, held, wk, recent>>

(***************************************************************************)
(* The client worker of daemon n.                                          *)
(***************************************************************************)
Paths == {<<"a">>, <<"a", "b">>, <<".">>}
StoreData == {Bytes(k) : k \in 1..MaxData}
ReadLocations == {Location(m, u) : m \in Nodes, u \in 0..1}

\* L asked for last.
AskedLast(order, L) == Append(SelectSeq(order, LAMBDA x : x # L), L)

\* recent after the response rsp of n's worker, written in world w.
Asked(n, w, rsp) ==
  IF ~recent.on THEN recent
  ELSE IF ~w.up[CacheNode] THEN [recent EXCEPT !.run = {}]
  ELSE IF n = CacheNode /\ rsp.op = "read" /\ rsp.loc.node # n
  THEN [recent EXCEPT !.order = AskedLast(@, rsp.loc), !.run = @ \cup {rsp.loc}]
  ELSE recent

\* held after the response rsp of n's worker, written in world w: an
\* OnlyInCache answer to a read is remembered with the bytes its Location
\* names, and a later body fetched for the same blob replaces them.
Hold(n, w, rsp) ==
  IF rsp.op = "read" /\ rsp.res.kind = "OnlyInCache"
  THEN [some |-> TRUE, node |-> n, of |-> rsp.loc, loc |-> rsp.res.val,
        body |-> FileData(w, n, rsp.res.val.uri)]
  ELSE IF /\ rsp.op = "read" /\ rsp.res.kind = "Ok"
          /\ held.some /\ held.node = n /\ held.of = rsp.loc
  THEN [held EXCEPT !.body = rsp.res.val]
  ELSE held

\* The step of n's worker ends in world w with the worker at c, having
\* written the response rsp (NoResponse: none).  A panic stops the daemon;
\* the worker of a stopped daemon is gone, and nothing is written.
Complete(n, w, c, rsp) ==
  LET panic == c.res.kind = "Panic" \/ c.succ.kind = "Panic"
      w1 == IF panic THEN PanicAt(w, n) ELSE w
  IN  /\ InBounds(w1)
      /\ SetWorld(w1)
      /\ cl' = [m \in DOMAIN cl |->
                  IF ~w1.up[m] THEN IdleClient ELSE IF m = n THEN c ELSE cl[m]]
      /\ out' = IF panic THEN NoResponse ELSE rsp
      /\ held' = Hold(n, w1, IF panic THEN NoResponse ELSE rsp)
      /\ wk' = WorkersIn(w1)
      /\ recent' = Asked(n, w1, IF panic THEN NoResponse ELSE rsp)
      /\ UNCHANGED <<quota, lastIns, hist>>

\* A request that ends with the response res.
Reply(n, w, c, loc, res) ==
  IF res.kind = "Panic"
  THEN Complete(n, w, [c EXCEPT !.res = res], NoResponse)
  ELSE Complete(n, w, IdleClient, Response(n, c, loc, res))

\* Place, Mkdir, and the place(name, local) that opens the library's store:
\* step 1 of place_file.
Allocate(n, req, at, a) ==
  IF a.res.kind # "Ok"
  THEN Reply(n, a.w, req, NoLocation, a.res)
  ELSE Complete(n, a.w, [req EXCEPT !.pc = "resolve", !.loc = Location(at, a.res.val)],
                NoResponse)

StartPlace(n, op, path, at, data) ==
  /\ up[n]
  /\ cl[n].pc = "idle"
  /\ Allocate(n, [IdleClient EXCEPT !.op = op, !.path = path, !.data = data], at,
              place_allocate(World, n, at))

\* Step 2 of place_file.
Resolve(n, c, pr) ==
  IF pr.res.kind # "Ok"
  THEN Reply(n, pr.w, c, c.loc, pr.res)
  ELSE Complete(n, pr.w, [c EXCEPT !.pc = "append", !.parent = pr.res.val], NoResponse)

PlaceResolve(n) ==
  /\ up[n]
  /\ cl[n].pc = "resolve"
  /\ Resolve(n, cl[n], place_parent(World, n, cl[n].path))

\* Step 3 of place_file.
AppendEntry(n, c, r) ==
  Complete(n, r.w, [c EXCEPT !.pc = "finish", !.succ = r.res], NoResponse)

PlaceAppend(n) ==
  /\ up[n]
  /\ cl[n].pc = "append"
  /\ AppendEntry(n, cl[n],
       place_append(World, n, cl[n].parent,
                    DirectoryEntry(cl[n].path[Len(cl[n].path)], cl[n].loc,
                                   cl[n].op = "mkdir")))

\* Step 4 and the response; a store goes on to its write when the place
\* answered Ok or AlreadyExists.
Finish(n, c, w1) ==
  LET res == IF c.succ.kind = "Ok" THEN Ok(c.loc) ELSE c.succ
  IN  IF c.op = "store" /\ res.kind \in {"Ok", "AlreadyExists"}
      THEN Complete(n, w1, [c EXCEPT !.pc = "write", !.res = res], NoResponse)
      ELSE Reply(n, w1, c, c.loc, res)

PlaceFinish(n) ==
  /\ up[n]
  /\ cl[n].pc = "finish"
  /\ Finish(n, cl[n],
            IF cl[n].succ.kind = "Ok"
            THEN IF cl[n].op = "mkdir"
                 THEN place_dots(World, n, cl[n].loc, cl[n].parent)
                 ELSE World
            ELSE place_rollback(World, n, cl[n].loc))

\* The write(location, buf) that closes the library's store.
StoreTarget(c) == IF c.res.kind = "Ok" THEN c.res.val ELSE c.res.val.loc

Written(n, c, r) ==
  IF r.res.kind = "Hang"
  THEN Complete(n, r.w, [c EXCEPT !.pc = "hung"], NoResponse)
  ELSE Reply(n, r.w, c, StoreTarget(c), r.res)

StoreWrite(n) ==
  /\ up[n]
  /\ cl[n].pc = "write"
  /\ Written(n, cl[n], handle_client_write(World, n, StoreTarget(cl[n]), cl[n].data))

Found(n, path, r) ==
  Reply(n, r.w, [IdleClient EXCEPT !.op = "find", !.path = path], NoLocation, r.res)

ClientFind(n, path) ==
  /\ up[n]
  /\ cl[n].pc = "idle"
  /\ Found(n, path, recursive_find(World, n, path))

WasRead(n, location, r) ==
  Reply(n, r.w, [IdleClient EXCEPT !.op = "read"], location, r.res)

ClientRead(n, location) ==
  /\ up[n]
  /\ cl[n].pc = "idle"
  /\ WasRead(n, location, handle_client_read(World, n, location))

\* Write(location, len) and the bytes that follow it.
WasWritten(n, c, location, r) ==
  IF r.res.kind = "Hang"
  THEN Complete(n, r.w, [c EXCEPT !.pc = "hung"], NoResponse)
  ELSE Reply(n, r.w, c, location, r.res)

ClientWrite(n, location, data) ==
  /\ up[n]
  /\ cl[n].pc = "idle"
  /\ WasWritten(n, [IdleClient EXCEPT !.op = "write", !.data = data], location,
                handle_client_write(World, n, location, data))

(***************************************************************************)
(* The environment: daemons stop and are started again, dead connections   *)
(* are noticed.                                                            *)
(***************************************************************************)
Crash(n) ==
  /\ up[n]
  /\ SetWorld(StopNode(World, n))
  /\ cl' = [cl EXCEPT ![n] = IdleClient]
  /\ wk' = WorkersIn(StopNode(World, n))
  /\ recent' = Asked(n, StopNode(World, n), NoResponse)
  /\ out' = NoResponse
  /\ UNCHANGED <<quota, lastIns, hist, held>>

\* A plausible slip: the root answers RootHello with its snapshot without
\* inserting the connecting node.
StartUnregistered(w, n) ==
  LET w1 == restore_cache([w EXCEPT !.up[n] = TRUE], n)
  IN  IF n = RootNode
      THEN LET w2 == [w1 EXCEPT !.hosts[n] = [init |-> TRUE, names |-> {}]]
           IN  IF FileExists(w2, n, RootUri) THEN w2
               ELSE FsWrite(w2, n, RootUri, RootDirInit)
      ELSE IF w1.up[RootNode]
      THEN [w1 EXCEPT !.hosts[n] =
                         [init |-> TRUE,
                          names |-> w1.hosts[RootNode].names \cup {RootNode}]]
      ELSE w1

\* main: restore_cache, then the root handshake (a node given --root-id) or
\* the root's own setup.
StartNode(w, n) ==
  LET w1 == restore_cache([w EXCEPT !.up[n] = TRUE], n)
  IN  IF n = RootNode
      THEN LET w2 == [w1 EXCEPT !.hosts[n] = [init |-> TRUE, names |-> {}]]
           IN  IF FileExists(w2, n, RootUri) THEN w2
               ELSE FsWrite(w2, n, RootUri, RootDirInit)
      ELSE IF w1.up[RootNode]
      THEN LET known == w1.hosts[RootNode].names \cup {n}
           IN  [w1 EXCEPT !.hosts[RootNode].names = known,
                          !.hosts[n] = [init |-> TRUE, names |-> known \cup {RootNode}]]
      ELSE w1

Restart(n) ==
  /\ ~up[n]
  /\ SetWorld(StartNode(World, n))
  /\ out' = NoResponse
  /\ UNCHANGED <<cl, quota, lastIns, hist, held, wk, recent>>

Timeout(n, p) ==
  /\ p \in DOMAIN conns[n]
  /\ conns[n][p] = "lost"
  /\ conns' = [conns EXCEPT ![n][p] = "closed"]
  /\ out' = NoResponse
  /\ UNCHANGED <<up, files, nextUri, cache, used, snap, hosts, now, open_files, cl,
               quota, lastIns, hist, held, wk, recent>>

\* Spec: the requests of the clients of both daemons, interleaved step by
\* step, while every daemon stays up.
Next ==
  \/ \E n \in Nodes, path \in Paths, at \in Nodes :
       \/ StartPlace(n, "place", path, at, <<>>)
       \/ StartPlace(n, "mkdir", path, at, <<>>)
  \/ \E n \in Nodes, path \in Paths, data \in StoreData :
       StartPlace(n, "store", path, n, data)
  \/ \E n \in Nodes : PlaceResolve(n)
  \/ \E n \in Nodes : PlaceAppend(n)
  \/ \E n \in Nodes : PlaceFinish(n)
  \/ \E n \in Nodes : StoreWrite(n)
  \/ \E n \in Nodes, path \in Paths : ClientFind(n, path)
  \/ \E n \in Nodes, location \in ReadLocations : ClientRead(n, location)

Spec == Init /\ [][Next]_vars

\* SpecFail: placements and lookups of "a" and "a/b" while daemons stop and
\* are started again.
FailPaths == {<<"a">>, <<"a", "b">>}

NextFail ==
  \/ \E n \in Nodes, path \in FailPaths, at \in Nodes :
       StartPlace(n, "place", path, at, <<>>)
  \/ \E n \in Nodes, at \in Nodes : StartPlace(n, "mkdir", <<"a">>, at, <<>>)
  \/ \E n \in Nodes : PlaceResolve(n)
  \/ \E n \in Nodes : PlaceAppend(n)
  \/ \E n \in Nodes : PlaceFinish(n)
  \/ \E n \in Nodes, path \in FailPaths : ClientFind(n, path)
  \/ \E n \in Nodes : Crash(n)
  \/ \E n \in Nodes : Restart(n)
  \/ \E n \in Nodes, p \in Nodes : Timeout(n, p)

InitFail == Start /\ quota = MaxBlobsFail /\ recent = NotRecorded

SpecFail == InitFail /\ [][NextFail]_vars

(***************************************************************************)
(* SpecCache: every sequence of cache inserts on one node, each with any   *)
(* Location of another node and a body of any size up to MaxBody.          *)
(***************************************************************************)
CacheLocs == {Location("R", u) : u \in 0..2}

CacheInsert(loc, size) ==
  LET w == add_cache_entry(World, CacheNode, loc, Bytes(size))
  IN  /\ InBounds(w)
      /\ SetWorld(w)
      /\ lastIns' = [node |-> CacheNode, size |-> size,
                      hit |-> CacheIndex(cache[CacheNode], loc) > 0]
      /\ hist' = IF hist = TooMany \/ Len(hist) = MaxHist THEN TooMany
                 ELSE Append(hist, [loc |-> loc, size |-> size])
      /\ UNCHANGED <<cl, out, quota, held, wk, recent>>

NextCache ==
  \E loc \in CacheLocs, size \in 0..MaxBody : CacheInsert(loc, size)

InitCache == Start /\ quota = MaxUri /\ recent = NotRecorded

SpecCache == InitCache /\ [][NextCache]_vars

(***************************************************************************)
(* SpecRead: the client of the root places the blob "a" and writes bodies  *)
(* to it, the client of CacheNode reads the root's blobs and its own cache *)
(* files, and the clock advances.  SpecReadFail: the same requests while   *)
(* daemons stop and are started again, the clock standing still.           *)
(***************************************************************************)
ReadSizes == {1, 2, MaxBody}
ReadBlob == Location(RootNode, 1)
ReadTargets ==
  {RootLocation, ReadBlob} \cup {Location(CacheNode, u) : u \in 1..2}

ReadRequests ==
  \/ StartPlace(RootNode, "place", <<"a">>, RootNode, <<>>)
  \/ PlaceResolve(RootNode)
  \/ PlaceAppend(RootNode)
  \/ PlaceFinish(RootNode)
  \/ \E k \in ReadSizes : ClientWrite(RootNode, ReadBlob, Bytes(k))
  \/ \E location \in ReadTargets : ClientRead(CacheNode, location)

NextRead ==
  \/ ReadRequests
  \/ Tick

InitRead == Start /\ quota = MaxBlobsRead /\ recent = NotRecorded

SpecRead == InitRead /\ [][NextRead]_vars

NextReadFail ==
  \/ ReadRequests
  \/ \E n \in Nodes : Crash(n)
  \/ \E n \in Nodes : Restart(n)
  \/ Timeout(CacheNode, RootNode)

SpecReadFail == InitRead /\ [][NextReadFail]_vars

(***************************************************************************)
(* SpecJoin: LateNode is started and registers at the root while the       *)
(* client of CacheNode reads blobs of the root and of LateNode; daemons    *)
(* stop and are started again.                                             *)
(***************************************************************************)
LateBlob == Location(LateNode, 1)
JoinTargets == {RootLocation, LateBlob}

NextJoin ==
  \/ \E location \in JoinTargets : ClientRead(CacheNode, location)
  \/ \E n \in AllNodes : Crash(n)
  \/ \E n \in AllNodes : Restart(n)
  \/ \E p \in AllNodes : Timeout(CacheNode, p)

SpecJoin == InitRead /\ [][NextJoin]_vars

(***************************************************************************)
(* SpecTasks: the tasks of one daemon interleaved at the file operations   *)
(* of write_local.  The clients place "a" twice, so that the second        *)
(* placement is rolled back, while a client writes to the blobs of its     *)
(* daemon and the client of CacheNode writes to the blobs of the root,     *)
(* which stops and is started again.                                       *)
(* SpecAwait: the workers interleaved at the suspension points of          *)
(* read_remote.  The clients read the blobs of the other daemon while they *)
(* place "a" and the root stops and is started again.                      *)
(***************************************************************************)
\* The locks of DaemonState whose guards are alive in a worker at c.  In
\* write_local the guard is gone before the file operations ("checked");
\* in read_remote the guards of cache and file_access_lock (exclusive)
\* live to the end of the function, and stream_for adds those of
\* connections and known_hosts while it dials.
LocksHeld(c) ==
  CASE c.pc = "dial" -> {"cache", "file_access_lock", "connections", "known_hosts"}
    [] c.pc = "await" -> {"cache", "file_access_lock"}
    [] OTHER -> {}

\* A handler of p that takes file_access_lock can run.
Unlocked(p) == "file_access_lock" \notin LocksHeld(cl[p])

\* The handler of p that serves a request of m's worker can take the
\* file-access lock (m's own worker is the one running).
Serves(p, m) == p = m \/ Unlocked(p)

TaskBlobs(n) == {Location(n, u) : u \in 1..2}

\* Write(location, len) to a local blob, up to the existence check.
Checked(n, c) ==
  IF write_exists(World, n, c.loc.uri)
  THEN Complete(n, World, [c EXCEPT !.pc = "checked"], NoResponse)
  ELSE Reply(n, World, c, c.loc, Err("DoesNotExist"))

WriteExists(n, location, data) ==
  /\ up[n]
  /\ cl[n].pc = "idle"
  /\ location.node = n
  /\ Checked(n, [IdleClient EXCEPT !.op = "write", !.data = data, !.loc = location])

\* The fs::write that follows, and the response.
WriteContents(n) ==
  /\ up[n]
  /\ cl[n].pc = "checked"
  /\ WasWritten(n, cl[n], cl[n].loc,
                write_contents(World, n, cl[n].loc.uri, cl[n].data))

\* Read(location) of a remote blob, up to the first suspension: the dial
\* of stream_for when no connection is stored, the sub-stream and the
\* response when one is.  A stored connection known to be dead fails at
\* open_bi.
ReadSend(n, location) ==
  /\ up[n]
  /\ cl[n].pc = "idle"
  /\ location.node # n
  /\ IF location.node \notin DOMAIN conns[n]
     THEN Complete(n, World,
                   [IdleClient EXCEPT !.op = "read", !.loc = location, !.pc = "dial"],
                   NoResponse)
     ELSE IF conns[n][location.node] = "closed"
     THEN WasRead(n, location, read_remote(World, n, location))
     ELSE Complete(n, World,
                   [IdleClient EXCEPT !.op = "read", !.loc = location, !.pc = "await"],
                   NoResponse)

\* stream_for returns s: with a connection the request is sent, without one
\* read_remote returns.
Dialed(n, c, s) ==
  IF s.conn = "live"
  THEN Complete(n, s.w, [c EXCEPT !.pc = "await"], NoResponse)
  ELSE WasRead(n, c.loc, read_remote(World, n, c.loc))

ReadDial(n) ==
  /\ up[n]
  /\ cl[n].pc = "dial"
  /\ Dialed(n, cl[n], stream_for(World, n, cl[n].loc.node))

\* The owner serves the Read under its file-access lock and the response
\* arrives; from an owner that has stopped none arrives.
ReadReceive(n) ==
  /\ up[n]
  /\ cl[n].pc = "await"
  /\ IF conns[n][cl[n].loc.node] = "live"
     THEN /\ Unlocked(cl[n].loc.node)
          /\ WasRead(n, cl[n].loc, read_remote(World, n, cl[n].loc))
     ELSE WasRead(n, cl[n].loc, [w |-> World, res |-> Err("Panic")])

\* Steps 3 and 4 of place_file, when the daemon that holds the directory,
\* or the blob to roll back, can take its file-access lock.
TaskAppend(n) ==
  /\ cl[n].pc = "append"
  /\ Serves(cl[n].parent.node, n)
  /\ PlaceAppend(n)

TaskFinish(n) ==
  /\ cl[n].pc = "finish"
  /\ cl[n].succ.kind = "Ok" \/ Serves(cl[n].loc.node, n)
  /\ PlaceFinish(n)

TaskReads(n) == {Location(m, u) : m \in Nodes \ {n}, u \in 0..1}

NextTasks ==
  \/ \E n \in Nodes, at \in Nodes : StartPlace(n, "place", <<"a">>, at, <<>>)
  \/ \E n \in Nodes : PlaceResolve(n)
  \/ \E n \in Nodes : PlaceAppend(n)
  \/ \E n \in Nodes : PlaceFinish(n)
  \/ \E n \in Nodes : \E location \in TaskBlobs(n), data \in StoreData :
       WriteExists(n, location, data)
  \/ \E n \in Nodes : WriteContents(n)
  \/ \E location \in TaskBlobs(RootNode), data \in StoreData :
       ClientWrite(CacheNode, location, data)
  \/ Crash(RootNode)
  \/ Restart(RootNode)
  \/ Timeout(CacheNode, RootNode)

SpecTasks == InitFail /\ [][NextTasks]_vars

NextAwait ==
  \/ \E n \in Nodes, at \in Nodes : StartPlace(n, "place", <<"a">>, at, <<>>)
  \/ \E n \in Nodes : PlaceResolve(n)
  \/ \E n \in Nodes : TaskAppend(n)
  \/ \E n \in Nodes : TaskFinish(n)
  \/ \E n \in Nodes : \E location \in TaskReads(n) : ReadSend(n, location)
  \/ \E n \in Nodes : ReadDial(n)
  \/ \E n \in Nodes : ReadReceive(n)
  \/ Crash(RootNode)
  \/ Restart(RootNode)
  \/ Timeout(CacheNode, RootNode)

SpecAwait == InitFail /\ [][NextAwait]_vars

(***************************************************************************)
(* SpecFd: the root's client places "a" (twice: the second placement is    *)
(* rolled back), clients write lines to the blob, and clients open, read   *)
(* and close descriptors of the root's blobs, on the root and from         *)
(* CacheNode, which is started again when it has stopped.                  *)
(***************************************************************************)
LineData ==
  {<<Byte(1)>>, <<NewLine, NewLine>>, <<Byte(1), NewLine, Byte(1)>>,
   <<Byte(1), Byte(1), NewLine>>}
FdBlobs == {Location(RootNode, u) : u \in 1..2}
Fds == 1..MaxOpen

Opened(n, location, r) ==
  /\ \A m \in Nodes : Cardinality(DOMAIN r.w.open_files[m]) <= MaxOpen
  /\ Reply(n, r.w, [IdleClient EXCEPT !.op = "open"], location, r.res)

ClientOpen(n, location) ==
  /\ up[n]
  /\ cl[n].pc = "idle"
  /\ Opened(n, location, open_file(World, n, location))

FdWasRead(n, c, location, r) == Reply(n, r.w, c, location, r.res)

ClientReadFd(n, location, fd, len) ==
  /\ up[n]
  /\ cl[n].pc = "idle"
  /\ FdWasRead(n, [IdleClient EXCEPT !.op = "read_fd", !.fd = fd, !.len = len],
               location, read_fd(World, n, location, fd, len))

ClientReadLineFd(n, location, fd) ==
  /\ up[n]
  /\ cl[n].pc = "idle"
  /\ FdWasRead(n, [IdleClient EXCEPT !.op = "read_line_fd", !.fd = fd],
               location, read_line_fd(World, n, location, fd))

ClientClose(n, node_name, fd) ==
  /\ up[n]
  /\ cl[n].pc = "idle"
  /\ FdWasRead(n, [IdleClient EXCEPT !.op = "close", !.fd = fd],
               Location(node_name, 0), close_file(World, n, node_name, fd))

NextFd ==
  \/ StartPlace(RootNode, "place", <<"a">>, RootNode, <<>>)
  \/ PlaceResolve(RootNode)
  \/ PlaceAppend(RootNode)
  \/ PlaceFinish(RootNode)
  \/ \E n \in Nodes, data \in LineData : ClientWrite(n, ReadBlob, data)
  \/ \E n \in Nodes, location \in FdBlobs : ClientOpen(n, location)
  \/ \E n \in Nodes, fd \in Fds, len \in 0..MaxLen :
       ClientReadFd(n, Location(RootNode, 0), fd, len)
  \/ \E n \in Nodes, fd \in Fds : ClientReadLineFd(n, Location(RootNode, 0), fd)
  \/ \E n \in Nodes, fd \in Fds : ClientClose(n, RootNode, fd)
  \/ Restart(CacheNode)

SpecFd == Init /\ [][NextFd]_vars

(***************************************************************************)
(* SpecConn: two further clients of CacheNode write to the blobs of the    *)
(* root at the same time, their workers interleaved at the suspension      *)
(* points of the remote Write; the root's client places "a", and both      *)
(* daemons stop and are started again.                                     *)
(***************************************************************************)
\* The step of the k-th worker ends in world w with the worker at c, having
\* written the response rsp; a panic stops the daemon.
WorkerStep(k, w, c, rsp) ==
  LET w1 == IF c.res.kind = "Panic" \/ c.succ.kind = "Panic"
            THEN PanicAt(w, CacheNode) ELSE w
  IN  /\ InBounds(w1)
      /\ SetWorld(w1)
      /\ wk' = IF w1.up[CacheNode] THEN [wk EXCEPT ![k] = c]
               ELSE [j \in Workers |-> IdleClient]
      /\ cl' = [m \in DOMAIN cl |-> IF ~w1.up[m] THEN IdleClient ELSE cl[m]]
      /\ out' = rsp
      /\ recent' = Asked(CacheNode, w1, NoResponse)
      /\ UNCHANGED <<quota, lastIns, hist, held>>

\* Write(location, len) to a remote blob, up to the answer s of stream_for.
Streamed(k, c, s) ==
  CASE s.conn = "panic" ->
         WorkerStep(k, s.w, [c EXCEPT !.res = Err("Panic")], NoResponse)
    [] s.conn = "none" ->
         WorkerStep(k, s.w, IdleClient,
                    Response(CacheNode, c, c.loc, Err("NotAccessible")))
    [] OTHER -> WorkerStep(k, s.w, [c EXCEPT !.pc = "stream"], NoResponse)

WriteStream(k, location, data) ==
  /\ up[CacheNode]
  /\ wk[k].pc = "idle"
  /\ location.node # CacheNode
  /\ Streamed(k, [IdleClient EXCEPT !.op = "write", !.data = data, !.loc = location],
              stream_for(World, CacheNode, location.node))

\* A plausible slip: the connection is used without its mutex.
NoConnectionMutex(k, node_name) == TRUE

\* file_owner_connection.lock() of the k-th worker returns: no other worker
\* holds the guard of the connection to node_name.
connection_lock(k, node_name) ==
  \A j \in Workers \ {k} : ~(wk[j].pc = "opened" /\ wk[j].loc.node = node_name)

\* The mutex is taken and open_bi opens the sub-stream, on which the request
\* and the bytes are sent; on a connection known to be dead open_bi fails,
\* and no response is written.
WriteOpen(k) ==
  /\ up[CacheNode]
  /\ wk[k].pc = "stream"
  /\ connection_lock(k, wk[k].loc.node)
  /\ IF conns[CacheNode][wk[k].loc.node] = "closed"
     THEN WorkerStep(k, World, [wk[k] EXCEPT !.pc = "hung"], NoResponse)
     ELSE WorkerStep(k, World, [wk[k] EXCEPT !.pc = "opened"], NoResponse)

\* The owner has served the request: the guard is dropped and the response
\* is written.
Answered(k, c, r) ==
  WorkerStep(k, r.w, IdleClient, Response(CacheNode, c, c.loc, r.rsp))

\* receive_message returns: with the owner's response, or with an error
\* when the owner has stopped, and then no response is written.
WriteReceive(k) ==
  /\ up[CacheNode]
  /\ wk[k].pc = "opened"
  /\ IF conns[CacheNode][wk[k].loc.node] = "live"
     THEN Answered(k, wk[k],
                   handle_daemon(World, wk[k].loc.node,
                                 [type |-> "Write", uri |-> wk[k].loc.uri,
                                  data |-> wk[k].data]))
     ELSE WorkerStep(k, World, [wk[k] EXCEPT !.pc = "hung"], NoResponse)

NextConn ==
  \/ StartPlace(RootNode, "place", <<"a">>, RootNode, <<>>)
  \/ PlaceResolve(RootNode)
  \/ PlaceAppend(RootNode)
  \/ PlaceFinish(RootNode)
  \/ \E k \in Workers, location \in TaskBlobs(RootNode), data \in StoreData :
       WriteStream(k, location, data)
  \/ \E k \in Workers : WriteOpen(k)
  \/ \E k \in Workers : WriteReceive(k)
  \/ \E n \in Nodes : Crash(n)
  \/ \E n \in Nodes : Restart(n)
  \/ Timeout(CacheNode, RootNode)

SpecConn == Init /\ [][NextConn]_vars

(***************************************************************************)
(* SpecLru: the root's client has stored one byte under each of the names  *)
(* "a", "b" and "c"; the client of CacheNode reads the three blobs again   *)
(* and again, the clock advances, and both daemons stop and are started    *)
(* again.  The requests of CacheNode for remote blobs are recorded in      *)
(* recent.                                                                 *)
(***************************************************************************)
LruNames == <<"a", "b", "c">>
LruBlobs == {Location(RootNode, u) : u \in 1..Len(LruNames)}

\* The working directory of the root after the three stores.
Stored ==
  /\ files = [n \in AllNodes |->
                IF n = RootNode
                THEN [u \in {RootUri} \cup (1..Len(LruNames)) |->
                        IF u = RootUri
                        THEN [data |-> RootDirInit \o
                                         [i \in 1..Len(LruNames) |->
                                            DirectoryEntry(LruNames[i],
                                                           Location(RootNode, i), FALSE)],
                              mtime |-> 0]
                        ELSE [data |-> Bytes(1), mtime |-> 0]]
                ELSE <<>>]
  /\ nextUri = [n \in AllNodes |-> IF n = RootNode THEN Len(LruNames) ELSE 0]

NextLru ==
  \/ \E location \in LruBlobs : ClientRead(CacheNode, location)
  \/ \E n \in Nodes : Crash(n)
  \/ \E n \in Nodes : Restart(n)
  \/ Timeout(CacheNode, RootNode)
  \/ Tick

InitLru ==
  /\ Cluster
  /\ Stored
  /\ quota = MaxBlobsLru
  /\ recent = [on |-> TRUE, order |-> <<>>, run |-> {}]

SpecLru == InitLru /\ [][NextLru]_vars

(***************************************************************************)
(* SpecPair: clients place and mkdir the path "a" at the same time: the    *)
(* client of each daemon and two further clients of CacheNode, their       *)
(* place_file calls interleaved step by step while every daemon stays up.  *)
(***************************************************************************)
\* A request of the k-th worker that ends with the response res.
WorkerReply(k, w, c, loc, res) ==
  IF res.kind = "Panic"
  THEN WorkerStep(k, w, [c EXCEPT !.res = res], NoResponse)
  ELSE WorkerStep(k, w, IdleClient, Response(CacheNode, c, loc, res))

\* Step 1 of place_file.
WorkerAllocated(k, c, at, a) ==
  IF a.res.kind # "Ok"
  THEN WorkerReply(k, a.w, c, NoLocation, a.res)
  ELSE WorkerStep(k, a.w, [c EXCEPT !.pc = "resolve", !.loc = Location(at, a.res.val)],
                  NoResponse)

WorkerAllocate(k, op, path, at) ==
  /\ up[CacheNode]
  /\ wk[k].pc = "idle"
  /\ WorkerAllocated(k, [IdleClient EXCEPT !.op = op, !.path = path], at,
                     place_allocate(World, CacheNode, at))

\* Step 2 of place_file.
WorkerResolved(k, c, pr) ==
  IF pr.res.kind # "Ok"
  THEN WorkerReply(k, pr.w, c, c.loc, pr.res)
  ELSE WorkerStep(k, pr.w, [c EXCEPT !.pc = "append", !.parent = pr.res.val], NoResponse)

WorkerResolve(k) ==
  /\ up[CacheNode]
  /\ wk[k].pc = "resolve"
  /\ WorkerResolved(k, wk[k], place_parent(World, CacheNode, wk[k].path))

\* Step 3 of place_file.
WorkerAppended(k, c, r) ==
  WorkerStep(k, r.w, [c EXCEPT !.pc = "finish", !.succ = r.res], NoResponse)

WorkerAppend(k) ==
  /\ up[CacheNode]
  /\ wk[k].pc = "append"
  /\ WorkerAppended(k, wk[k],
       place_append(World, CacheNode, wk[k].parent,
                    DirectoryEntry(wk[k].path[Len(wk[k].path)], wk[k].loc,
                                   wk[k].op = "mkdir")))

\* Step 4 of place_file and the response.
WorkerFinished(k, c, w1) ==
  WorkerReply(k, w1, c, c.loc, IF c.succ.kind = "Ok" THEN Ok(c.loc) ELSE c.succ)

WorkerFinish(k) ==
  /\ up[CacheNode]
  /\ wk[k].pc = "finish"
  /\ WorkerFinished(k, wk[k],
       IF wk[k].succ.kind = "Ok"
       THEN IF wk[k].op = "mkdir"
            THEN place_dots(World, CacheNode, wk[k].loc, wk[k].parent)
            ELSE World
       ELSE place_rollback(World, CacheNode, wk[k].loc))

NextPair ==
  \/ \E n \in Nodes, at \in Nodes :
       \/ StartPlace(n, "place", <<"a">>, at, <<>>)
       \/ StartPlace(n, "mkdir", <<"a">>, at, <<>>)
  \/ \E n \in Nodes : PlaceResolve(n)
  \/ \E n \in Nodes : PlaceAppend(n)
  \/ \E n \in Nodes : PlaceFinish(n)
  \/ \E k \in Workers, at \in Nodes :
       \/ WorkerAllocate(k, "place", <<"a">>, at)
       \/ WorkerAllocate(k, "mkdir", <<"a">>, at)
  \/ \E k \in Workers : WorkerResolve(k)
  \/ \E k \in Workers : WorkerAppend(k)
  \/ \E k \in Workers : WorkerFinish(k)

SpecPair == InitFail /\ [][NextPair]_vars

(***************************************************************************)
(* SpecLost: the placements of SpecFail, where the node of the parent      *)
(* directory may also stop between applying an AppendDirectoryEntry and    *)
(* sending its response.                                                   *)
(***************************************************************************)
\* Step 3 of place_file against a remote parent whose handler runs
\* append_dir_entry and is stopped before send_message: receive_message
\* fails in the caller and the append counts as failed.
PlaceAppendLost(n) ==
  LET c == cl[n]
      p == c.parent.node
      s == stream_for(World, n, p)
      h == handle_daemon(s.w, p,
             [type |-> "AppendDirectoryEntry", uri |-> c.parent.uri,
              entry |-> DirectoryEntry(c.path[Len(c.path)], c.loc, c.op = "mkdir")])
  IN  /\ up[n]
      /\ c.pc = "append"
      /\ p # n
      /\ s.conn = "live"
      /\ h.rsp.kind # "Panic"
      /\ AppendEntry(n, c, appended([w |-> StopNode(h.w, p), rsp |-> Err("Fail")]))

NextLost ==
  \/ NextFail
  \/ \E n \in Nodes : PlaceAppendLost(n)

SpecLost == InitFail /\ [][NextLost]_vars

(***************************************************************************)
(* Claims about the client operations, checked under Spec: out is the      *)
(* response written by the last step, so a state with a response in out is *)
(* the state in which the request returned.                                *)
(***************************************************************************)
\* C1: after store(path, bytes) returns Ok on a client, a following
\* fetch(path) on the same client returns exactly bytes.
C1_RoundTrip ==
  (out.op = "store" /\ out.res.kind = "Ok")
    => fetch(World, out.node, out.path) = Ok(out.data)

\* C2: when place(p, at) returns Ok(L), an immediately following Find(p) on
\* the same daemon returns a DirectoryEntry whose location is L.
C2_FindAfterPlace ==
  (out.op = "place" /\ out.res.kind = "Ok")
    => /\ recursive_find(World, out.node, out.path).res.kind = "Ok"
       /\ recursive_find(World, out.node, out.path).res.val.loc = out.res.val

(***************************************************************************)
(* Claims about placement and lookup while daemons stop, checked under     *)
(* SpecFail.                                                               *)
(***************************************************************************)
\* The entries a reader of the blob decodes: the items up to the first one
\* that is no DirectoryEntry.
RECURSIVE DirEntries(_)
DirEntries(data) ==
  IF data = <<>> \/ ~IsEntry(Head(data)) THEN <<>>
  ELSE <<Head(data)>> \o DirEntries(Tail(data))

DistinctNames(entries) ==
  \A i, j \in 1..Len(entries) : entries[i].name = entries[j].name => i = j

\* C3: in every reachable state, under every interleaving of Place, Mkdir
\* and AppendDirectoryEntry requests of local clients and remote peers, the
\* names of the entries of any one directory blob are pairwise distinct.
C3_UniqueNames ==
  \A n \in Nodes : \A u \in DOMAIN files[n] :
    DistinctNames(DirEntries(files[n][u].data))

\* The case of C3: a placement was refused with AlreadyExists while the
\* placement of the same path by the client of the other daemon, which won
\* the append, is still in progress.
C3_Witness ==
  /\ out.op \in {"place", "mkdir"}
  /\ out.res.kind = "AlreadyExists"
  /\ \E m \in Nodes :
       /\ m # out.node
       /\ cl[m].pc = "finish"
       /\ cl[m].path = out.path
       /\ cl[m].succ.kind = "Ok"
       /\ out.res.val.loc = cl[m].loc

\* The step is the PlaceAppend of n, and the parent directory answered
\* AlreadyExists.
AppendRefused(n) ==
  /\ cl[n].pc = "append"
  /\ cl'[n].pc = "finish"
  /\ cl'[n].succ.kind = "AlreadyExists"

\* The step is the PlaceFinish of n after a refused append.
RefusedFinish(n) ==
  /\ cl[n].pc = "finish"
  /\ cl[n].succ.kind = "AlreadyExists"
  /\ cl'[n].pc = "idle"
  /\ up'[n]

\* The refused append leaves the parent directory blob as it was and
\* carries the entry of that name the directory holds.
RefusalKeepsParent(n) ==
  AppendRefused(n) =>
    /\ files'[cl[n].parent.node] = files[cl[n].parent.node]
    /\ cl'[n].succ.val.name = cl[n].path[Len(cl[n].path)]
    /\ \E i \in 1..Len(FileData(World, cl[n].parent.node, cl[n].parent.uri)) :
         FileData(World, cl[n].parent.node, cl[n].parent.uri)[i] = cl'[n].succ.val

\* The call returns the AlreadyExists of the append and its blob is gone.
RefusalRollsBack(n) ==
  /\ out'.node = n
  /\ out'.res = cl[n].succ
  /\ cl[n].loc.uri \notin DOMAIN files'[cl[n].loc.node]

\* Node "at" is the local node, or the connection stored for it is live.
CanReach(n, at) ==
  at = n \/ (at \in DOMAIN conns[n] /\ conns[n][at] = "live")

C5_DegradationKept ==
  \A n \in Nodes : \A p \in FailPaths :
    up[n] =>
      /\ recursive_find(World, n, p).degraded
           => recursive_find(World, n, p).res.kind # "Ok"
      /\ recursive_find(World, n, p).res.kind = "CacheNeededForTraversal"
           => recursive_find(World, n, p).degraded

\* The case of C5: Find("a/b") on the root node, whose root directory is
\* local, returned CacheNeededForTraversal: the directory "a" came from the
\* cache.
C5_Witness ==
  /\ out.op = "find"
  /\ out.node = RootNode
  /\ out.path = <<"a", "b">>
  /\ out.res.kind = "CacheNeededForTraversal"

FailLocations == {Location(m, u) : m \in Nodes, u \in 0..MaxBlobsFail}

\* C6: when the owner of L cannot be reached, read_remote(L) returns
\* OnlyInCache(the cached copy on the local node) if the cache holds L and
\* NotAccessible if it does not, whatever makes the owner unreachable.
C6_UnreachableOwner ==
  \A n \in Nodes : \A L \in FailLocations :
    (up[n] /\ L.node # n /\ ~up[L.node]) =>
      read_remote(World, n, L).res =
        IF CacheIndex(cache[n], L) > 0
        THEN ErrWith("OnlyInCache",
                     Location(n, cache[n][CacheIndex(cache[n], L)].uri))
        ELSE Err("NotAccessible")

\* C7: whenever the resolved parent entry has is_dir = FALSE, as a plain
\* success or as CacheNeededForTraversal, the walk returns NotADirectory and
\* leaves the world as the walk of the parent left it: the parent's blob is
\* neither read nor searched.
C7_NotADirectory ==
  \A n \in Nodes :
    LET parent == recursive_find(World, n, <<"a">>)
    IN  (/\ up[n]
         /\ parent.res.kind \in {"Ok", "CacheNeededForTraversal"}
         /\ ~parent.res.val.is_dir)
          => recursive_find(World, n, <<"a", "b">>) =
               [w |-> parent.w, res |-> Err("NotADirectory"),
                degraded |-> parent.degraded]

\* The case of C7: Find("a/b") returned NotADirectory on a node for which
\* the entry of the file "a" comes from a cached root directory.
C7_Witness ==
  /\ out.op = "find"
  /\ out.path = <<"a", "b">>
  /\ out.res.kind = "NotADirectory"
  /\ up[out.node]
  /\ recursive_find(World, out.node, <<"a">>).res.kind = "CacheNeededForTraversal"

(***************************************************************************)
(* Claims about the cache, checked under SpecCache.  Each action of        *)
(* SpecCache is one whole call of add_cache_entry, so every state is the   *)
(* state on return of an insert.                                           *)
(***************************************************************************)
EntriesBacked(n) ==
  \A i \in 1..Len(cache[n]) : FileExists(World, n, cache[n][i].uri)

\* C8: on return of every cache insert used_cache_bytes <= max_cache_size,
\* for every sequence of inserts, repeated inserts of one Location and
\* bodies larger than max_cache_size included.
C8_UsedWithinBudget == \A n \in Nodes : used[n] <= MaxCache

\* The case of C8: a Location already cached was inserted again with a body
\* larger than max_cache_size, after an earlier entry had been evicted.
C8_Witness ==
  /\ lastIns.node = CacheNode
  /\ lastIns.hit
  /\ lastIns.size > MaxCache
  /\ nextUri[CacheNode] >= 2

\* C9: after every cache insert every cached Location has its backing file
\* and used_cache_bytes is the sum of the sizes of the backing files.
C9_CacheAccounting ==
  \A n \in Nodes :
    EntriesBacked(n) /\ used[n] = BackingBytes(World, n, cache[n])

\* C10: on return of each insert the backing files of the cached entries
\* total at most max_cache_size bytes and each cached Location has its
\* backing file.
C10_BackingWithinBudget ==
  \A n \in Nodes :
    EntriesBacked(n) /\ BackingBytes(World, n, cache[n]) <= MaxCache

\* The case of C10: an insert of a body no larger than max_cache_size made
\* the cache evict, and the entries left fill the budget exactly.
C10_Witness ==
  /\ lastIns.node = CacheNode
  /\ lastIns.size <= MaxCache
  /\ lastIns.size > 0
  /\ Len(cache[CacheNode]) >= 2
  /\ nextUri[CacheNode] > Len(cache[CacheNode])
  /\ BackingBytes(World, CacheNode, cache[CacheNode]) = MaxCache

(***************************************************************************)
(* The eviction scenario, checked under SpecCache with the sizes scaled:   *)
(* a body of 40 bytes in a cache of 64 is a body that fits the cache alone *)
(* while two of them do not.                                               *)
(***************************************************************************)
ScenarioSizes == {s \in 1..MaxBody : s <= MaxCache /\ 2 * s > MaxCache}

\* Three bodies of one scenario size were inserted for three distinct
\* Locations, in this order, into the cache that was empty at start.
ThreeRead ==
  /\ Len(hist) = 3
  /\ hist # TooMany
  /\ hist[1].loc # hist[2].loc /\ hist[1].loc # hist[3].loc /\ hist[2].loc # hist[3].loc
  /\ hist[1].size \in ScenarioSizes
  /\ hist[2].size = hist[1].size /\ hist[3].size = hist[1].size

CachedLocs(n) == {cache[n][i].loc : i \in 1..Len(cache[n])}
CachedUris(n) == {cache[n][i].uri : i \in 1..Len(cache[n])}

\* C11, as stated: after the three reads A, B, C the counter is within the
\* budget, the cache holds exactly the entries of B and C, and the backing
\* file of the evicted entry is gone.
C11_TwoRemain ==
  ThreeRead =>
    /\ used[CacheNode] <= MaxCache
    /\ Len(cache[CacheNode]) = 2
    /\ CachedLocs(CacheNode) = {hist[2].loc, hist[3].loc}
    /\ DOMAIN files[CacheNode] = CachedUris(CacheNode)

\* C11, amended: after the three reads A, B, C the counter is within the
\* budget, the cache holds exactly the entry of C (two such bodies exceed
\* the budget), and the backing files of A and B are gone.
C11_LastRemains ==
  ThreeRead =>
    /\ used[CacheNode] <= MaxCache
    /\ Len(cache[CacheNode]) = 1
    /\ cache[CacheNode][1].loc = hist[3].loc
    /\ DOMAIN files[CacheNode] = {cache[CacheNode][1].uri}
    /\ FileData(World, CacheNode, cache[CacheNode][1].uri) = Bytes(hist[3].size)

C11_Witness ==
  /\ ThreeRead
  /\ Len(cache[CacheNode]) = 1
  /\ nextUri[CacheNode] = 3

(***************************************************************************)
(* Claims about remote reads, checked under SpecRead and SpecReadFail.     *)
(* CacheNode stores no blob of its own there: its working directory holds  *)
(* the backing files of its cache only.                                    *)
(***************************************************************************)
\* The last step answered the read of a blob of another node by CacheNode's
\* client.
RemoteReadDone ==
  /\ out.op = "read"
  /\ out.node = CacheNode
  /\ out.loc.node # CacheNode

\* The blob the read was about is larger than max_cache_size.
OversizeBlob ==
  /\ FileExists(World, out.loc.node, out.loc.uri)
  /\ FileSize(World, out.loc.node, out.loc.uri) > MaxCache

\* C12: a remote read of a body larger than max_cache_size returns the
\* full body; when it has returned the cache is empty, no backing file is
\* left, and used_cache_bytes is within the budget.
C12_OversizeRead ==
  (RemoteReadDone /\ OversizeBlob) =>
    /\ out.res = Ok(FileData(World, out.loc.node, out.loc.uri))
    /\ cache[CacheNode] = <<>>
    /\ DOMAIN files[CacheNode] = {}
    /\ used[CacheNode] <= MaxCache

\* An oversize read that found an entry cached before it.
C12_Witness ==
  /\ RemoteReadDone
  /\ OversizeBlob
  /\ out.res.kind = "Ok"
  /\ Len(out.res.val) > MaxCache
  /\ nextUri[CacheNode] >= 2
  /\ cache[CacheNode] = <<>>

\* The step is an insert into the cache of n: the snapshot was rewritten.
InsertReturned(n) == up'[n] /\ snap'[n] # snap[n]

\* The step starts the daemon of n.
Started(n) == ~up[n] /\ up'[n]

\* C13: the snapshot an insert leaves lists the cache as it is when the
\* insert returns (most recently used first) with its used_cache_bytes, and
\* a start restores from the last snapshot the same Location -> CacheEntry
\* pairs in the same least-to-most-recently-used order and the same
\* used_cache_bytes; with no snapshot file the cache starts empty with
\* used_cache_bytes = 0.
C13_SnapshotRoundTrip ==
  [][\A n \in Nodes :
       /\ InsertReturned(n) =>
            /\ snap'[n].exists
            /\ Reverse(snap'[n].entries) = cache'[n]
            /\ snap'[n].used = used'[n]
       /\ Started(n) =>
            IF snap[n].exists
            THEN /\ cache'[n] = Reverse(snap[n].entries)
                 /\ used'[n] = snap[n].used
            ELSE /\ cache'[n] = <<>>
                 /\ used'[n] = 0]_vars

\* CacheNode was started and has made no request yet; it restored a cache
\* of two entries.
C13_Witness ==
  /\ up[CacheNode]
  /\ conns[CacheNode] = <<>>
  /\ Len(cache[CacheNode]) >= 2
  /\ cache[CacheNode] = Reverse(snap[CacheNode].entries)
  /\ used[CacheNode] = snap[CacheNode].used

(***************************************************************************)
(* Conditional reads, checked under SpecRead, where the clock advances and *)
(* every daemon stays up.                                                  *)
(***************************************************************************)
RemoteBlobs == {RootLocation, ReadBlob}

\* CacheNode holds a cached copy of L, and the blob L exists on its owner.
CachedCopy(L) ==
  /\ CacheIndex(cache[CacheNode], L) > 0
  /\ FileExists(World, CacheNode, cache[CacheNode][CacheIndex(cache[CacheNode], L)].uri)
  /\ FileExists(World, L.node, L.uri)

CopyUri(L) == cache[CacheNode][CacheIndex(cache[CacheNode], L)].uri

\* The response of L's owner to Read(L.uri, Some(t)), t the modification
\* time of the cached copy.
Served(L) ==
  ServeRead(World, L.node, L.uri,
            [some |-> TRUE, t |-> FileMtime(World, CacheNode, CopyUri(L))])

\* The step answers the read of L by CacheNode's client.
ReadStep(L) == out'.op = "read" /\ out'.node = CacheNode /\ out'.loc = L

\* The blob is older than the copy; inclusive: or as old.
BlobNotNewer(L, inclusive) ==
  IF inclusive
  THEN FileMtime(World, L.node, L.uri) <= FileMtime(World, CacheNode, CopyUri(L))
  ELSE FileMtime(World, L.node, L.uri) < FileMtime(World, CacheNode, CopyUri(L))

ConditionalRead(L, inclusive) ==
  CachedCopy(L) =>
    /\ (Served(L).kind = "NotModified") <=> BlobNotNewer(L, inclusive)
    /\ ~BlobNotNewer(L, inclusive) => Served(L) = Ok(FileData(World, L.node, L.uri))
    /\ (ReadStep(L) /\ Served(L).kind = "NotModified") =>
         /\ out'.res = Ok(FileData(World, CacheNode, CopyUri(L)))
         /\ files'[CacheNode] = files[CacheNode]
         /\ used'[CacheNode] = used[CacheNode]
         /\ CachedLocs(CacheNode)' = CachedLocs(CacheNode)
         /\ CachedUris(CacheNode)' = CachedUris(CacheNode)
         /\ CopyUri(L)' = CopyUri(L)

C15_CacheLocReadable ==
  (held.some /\ up[held.node]) =>
    /\ held.loc.node = held.node
    /\ handle_client_read(World, held.node, held.loc).res = Ok(held.body)

(***************************************************************************)
(* The host directory, checked under SpecJoin.                             *)
(***************************************************************************)
\* C16: on a non-root node whose RootHello handshake succeeded, a request
\* to a node X that is neither in its connections nor in its known_hosts
\* but is registered at the root leaves a live connection to X stored,
\* root and X being reachable, whether or not the node has made a request
\* to the root before.
C16_ResolvesThroughRoot ==
  [][(/\ ReadStep(LateBlob)
      /\ up[CacheNode] /\ hosts[CacheNode].init
      /\ LateNode \notin DOMAIN conns[CacheNode]
      /\ LateNode \notin hosts[CacheNode].names
      /\ AddressFor(World, LateNode)
      /\ up[RootNode] /\ up[LateNode])
     => (/\ LateNode \in DOMAIN conns'[CacheNode]
         /\ conns'[CacheNode][LateNode] = "live"
         /\ out'.res.kind # "NotAccessible")]_vars

\* The root handles the RootHello of n in this step: n is started while the
\* root is up.
RootHelloHandled(n) == Started(n) /\ up[RootNode]

\* The root inserts n before it replies, and the reply carries the root
\* node and a snapshot with n and every node registered before.
HelloRegisters(n) ==
  RootHelloHandled(n) =>
    /\ n \in hosts'[RootNode].names
    /\ AddressFor(World', n)
    /\ hosts'[n].init
    /\ RootNode \in hosts'[n].names
    /\ (hosts[RootNode].names \cup {n}) \subseteq hosts'[n].names

\* C17, as stated: the root registers the node of a RootHello and replies
\* with the root node and the snapshot, and whenever afterwards the root
\* answers AddressFor(node.name), the node still running, the answer is
\* Some(identity).
C17_RegisteredForGood ==
  [][\A n \in AllNodes \ {RootNode} :
       /\ HelloRegisters(n)
       /\ (up[n] /\ hosts[n].init /\ up[RootNode]) => AddressFor(World, n)]_vars

\* C17, amended: the registration lasts as long as the root process runs;
\* known_hosts lives in memory only, and a root that was started again
\* answers None until the node sends RootHello again.
C17_RegisteredWhileRootRuns ==
  [][\A n \in AllNodes \ {RootNode} :
       /\ HelloRegisters(n)
       /\ (AddressFor(World, n) /\ up[RootNode] /\ up'[RootNode])
            => AddressFor(World', n)]_vars

\* LateNode registered after CacheNode, and CacheNode, which did not have
\* it in its snapshot, reached it through the root's AddressFor answer.
C17_Witness ==
  /\ up[LateNode] /\ hosts[LateNode].init
  /\ hosts[LateNode].names = AllNodes
  /\ LateNode \in hosts[RootNode].names
  /\ LateNode \notin hosts[CacheNode].names
  /\ LateNode \in DOMAIN conns[CacheNode]
  /\ conns[CacheNode][LateNode] = "live"

(***************************************************************************)
(* Directories made by mkdir, checked under Spec and SpecFail.             *)
(***************************************************************************)
\* The location of the parent directory of a path of one or two
\* components, as the root directory records it.
ParentOf(path) ==
  IF Len(path) = 1 THEN RootLocation
  ELSE LET e == search_directory(World, RootNode, path[1], RootUri)
       IN  IF e.kind = "Ok" THEN e.val.loc ELSE NoLocation

\* The two links of a new directory at L under the directory at parent.
DotLinks(L, parent) ==
  <<DirectoryEntry(".", L, TRUE), DirectoryEntry("..", parent, TRUE)>>

\* C18: when mkdir(p, at) has returned Ok(L), the blob at L holds exactly
\* the entry "." for L followed by the entry ".." for the parent directory
\* of p, for a local and a remote "at", under the root and under a nested
\* directory.
C18_DotsAfterMkdir ==
  (out.op = "mkdir" /\ out.res.kind = "Ok") =>
    /\ FileExists(World, out.res.val.node, out.res.val.uri)
    /\ FileData(World, out.res.val.node, out.res.val.uri)
         = DotLinks(out.res.val, ParentOf(out.path))

\* The names of the entries of the blob at L.
NamesAt(L) ==
  {DirEntries(FileData(World, L.node, L.uri))[i].name :
     i \in 1..Len(DirEntries(FileData(World, L.node, L.uri)))}

\* The entries of every blob of every node.
EntriesOf(n, u) ==
  {DirEntries(files[n][u].data)[i] : i \in 1..Len(DirEntries(files[n][u].data))}

VisibleEntries ==
  UNION {UNION {EntriesOf(n, u) : u \in DOMAIN files[n]} : n \in Nodes}

\* C19: in every reachable state, the states between the steps of a mkdir
\* included, every entry with is_dir = TRUE that some directory holds and
\* whose blob exists refers to a blob with an entry "." and an entry "..".
C19_DirsHaveDots ==
  \A e \in VisibleEntries :
    (e.is_dir /\ FileExists(World, e.loc.node, e.loc.uri)) =>
      {".", ".."} \subseteq NamesAt(e.loc)

(***************************************************************************)
(* The parent of a placement, checked under Spec.                          *)
(***************************************************************************)
\* The last step answered a Place or Mkdir of a path of two components
\* whose first component names an entry of the root directory that is not
\* a directory.
PlacedUnderFile ==
  /\ out.op \in {"place", "mkdir"}
  /\ Len(out.path) = 2
  /\ search_directory(World, RootNode, out.path[1], RootUri).kind = "Ok"
  /\ ~search_directory(World, RootNode, out.path[1], RootUri).val.is_dir

\* C20: a placement whose parent path resolves to an entry with
\* is_dir = FALSE fails, appends no entry to the blob of that parent, and
\* leaves no blob allocated for it.
C20_ParentMustBeDir ==
  PlacedUnderFile =>
    /\ out.res.kind # "Ok"
    /\ FileExists(World, ParentOf(out.path).node, ParentOf(out.path).uri)
         => out.path[2] \notin NamesAt(ParentOf(out.path))
    /\ ~FileExists(World, out.loc.node, out.loc.uri)

(***************************************************************************)
(* The local store under concurrent tasks, checked under SpecTasks.        *)
(***************************************************************************)
\* The step writes the response to a Write of a blob of n's own store.
LocalWriteReturns(n) ==
  /\ out' # out
  /\ out'.op = "write" /\ out'.node = n /\ out'.loc.node = n

\* C21: a local write(uri, bytes) never creates a blob: it returns Ok only
\* for a blob that exists, DoesNotExist otherwise, and the node has the
\* same blobs after it as before, whatever Remove and Place requests run
\* between its steps.
C21_WriteNeverCreates ==
  [][\A n \in Nodes :
       LocalWriteReturns(n) =>
         /\ DOMAIN files'[n] = DOMAIN files[n]
         /\ out'.res.kind \in {"Ok", "DoesNotExist"}
         /\ out'.res.kind = "Ok" <=> out'.loc.uri \in DOMAIN files[n]]_vars

(***************************************************************************)
(* The peer protocol, checked under SpecFd.                                *)
(***************************************************************************)
PeerRequests ==
  {[type |-> "Place"], [type |-> "AddressFor", node_name |-> CacheNode]}
  \cup {[type |-> "Open", uri |-> u] : u \in 0..2}
  \cup {[type |-> "Read", uri |-> u, last_modified |-> [some |-> FALSE, t |-> 0]] :
          u \in 0..2}
  \cup {[type |-> "Write", uri |-> u, data |-> d] : u \in 0..2, d \in LineData}
  \cup {[type |-> "Remove", uri |-> u] : u \in 0..2}
  \cup {[type |-> "AppendDirectoryEntry", uri |-> RootUri,
          entry |-> DirectoryEntry("a", ReadBlob, FALSE)]}
  \cup {[type |-> "ReadFd", fd |-> fd, len |-> len] : fd \in Fds, len \in 0..MaxLen}
  \cup {[type |-> "ReadLineFd", fd |-> fd] : fd \in Fds}
  \cup {[type |-> "Close", fd |-> fd] : fd \in Fds}

\* C22: every DaemonRequest a running daemon receives on a sub-stream is
\* answered with one DaemonResponse of the variant of the request.
C22_EveryRequestAnswered ==
  \A p \in Nodes, req \in PeerRequests :
    up[p] => handle_daemon(World, p, req).variant = req.type

(***************************************************************************)
(* The client protocol, checked under SpecTasks.                           *)
(***************************************************************************)
\* C23: every ClientRequest a worker decodes is answered with a
\* ClientResponse before the worker decodes the next one, a Write to a
\* remote Location whose owner cannot be reached included: no worker has
\* finished a request without writing its response.
C23_EveryRequestAnswered == \A n \in Nodes : cl[n].pc # "hung"

(***************************************************************************)
(* A peer that disconnects, checked under SpecReadFail.                    *)
(***************************************************************************)
\* n holds a connection to p, and p has stopped: a request n sends on it is
\* not answered.
Disconnected(n, p) ==
  up[n] /\ p \in DOMAIN conns[n] /\ conns[n][p] = "lost"

\* C24: when the owner of L disconnects between a request and its
\* response, a remote read returns OnlyInCache if the cache holds L and
\* NotAccessible if not, open, read_fd, read_line_fd and close return
\* NotAccessible, and the daemon goes on serving: it does not panic.
C24_DisconnectReported ==
  \A L \in RemoteBlobs :
    Disconnected(CacheNode, L.node) =>
      /\ read_remote(World, CacheNode, L).res.kind =
           IF CacheIndex(cache[CacheNode], L) > 0 THEN "OnlyInCache"
           ELSE "NotAccessible"
      /\ open_file(World, CacheNode, L).res.kind = "NotAccessible"
      /\ read_fd(World, CacheNode, L, 1, 1).res.kind = "NotAccessible"
      /\ read_line_fd(World, CacheNode, L, 1).res.kind = "NotAccessible"
      /\ close_file(World, CacheNode, L.node, 1).res.kind = "NotAccessible"

(***************************************************************************)
(* The root handshake at launch, checked under SpecJoin.                   *)
(***************************************************************************)
\* C25: a daemon launched with a root identity whose root handshake fails
\* aborts: every running non-root daemon, which accepts client requests,
\* has known_hosts initialised and holding the root.
C25_HandshakeOrAbort ==
  \A n \in AllNodes \ {RootNode} :
    up[n] => hosts[n].init /\ RootNode \in hosts[n].names

(***************************************************************************)
(* Descriptors, checked under SpecFd.                                      *)
(***************************************************************************)
\* The step answers the request op that n's client made for a descriptor
\* of n itself.
FdStep(n, op) == out'.op = op /\ out'.node = n /\ out'.loc.node = n

\* The descriptor of the request, before the step: whether it is open, the
\* bytes of its blob and its read position.
OpenBefore(n) == out'.fd \in DOMAIN open_files[n]
BytesBefore(n) == HandleData(World, n, open_files[n][out'.fd])
PosBefore(n) == open_files[n][out'.fd].pos

\* The step returns Ok(val), the bytes of the blob that follow the read
\* position, and moves the position past them.
ReadsOn(n, val) ==
  /\ out'.res = Ok(val)
  /\ val = <<>> \/ PosBefore(n) + Len(val) <= Len(BytesBefore(n))
  /\ val = SubSeq(BytesBefore(n), PosBefore(n) + 1, PosBefore(n) + Len(val))
  /\ out'.fd \in DOMAIN open_files'[n]
  /\ open_files'[n][out'.fd].pos = PosBefore(n) + Len(val)

AtEof(n) == PosBefore(n) >= Len(BytesBefore(n))

\* C26: for an open descriptor, read_fd(fd, n) returns at most n bytes and,
\* for n > 0, none only at end of file; read_line_fd(fd) returns the bytes
\* from the position up to and including the next '\n', or to the end of
\* the file when no '\n' remains, so that a non-empty result ends in '\n'
\* unless the end of the file was reached; every result is the bytes at the
\* position, which moves past them, so that successive results,
\* concatenated, are the content of the file from the starting position.
C26_ReadSemantics ==
  [][\A n \in Nodes :
       /\ (FdStep(n, "read_fd") /\ OpenBefore(n)) =>
            /\ out'.res.kind = "Ok"
            /\ ReadsOn(n, out'.res.val)
            /\ Len(out'.res.val) <= out'.len
            /\ (out'.len > 0 /\ out'.res.val = <<>>) => AtEof(n)
       /\ (FdStep(n, "read_line_fd") /\ OpenBefore(n)) =>
            /\ out'.res.kind = "Ok"
            /\ ReadsOn(n, out'.res.val)
            /\ \A i \in 1..(Len(out'.res.val) - 1) : out'.res.val[i] # NewLine
            /\ out'.res.val = <<>> => AtEof(n)
            /\ out'.res.val # <<>> =>
                 \/ out'.res.val[Len(out'.res.val)] = NewLine
                 \/ PosBefore(n) + Len(out'.res.val) = Len(BytesBefore(n))]_vars

\* A read_line_fd has returned the first line of a blob of two lines, and a
\* read_fd of two bytes the one byte that was left.
C26_Witness ==
  /\ out.op = "read_fd" /\ out.node = RootNode /\ out.loc.node = RootNode
  /\ out.len = 2
  /\ out.res = Ok(<<Byte(1)>>)
  /\ out.fd \in DOMAIN open_files[RootNode]
  /\ open_files[RootNode][out.fd].pos = 3
  /\ HandleData(World, RootNode, open_files[RootNode][out.fd])
       = <<Byte(1), NewLine, Byte(1)>>

\* The table of n after the step is the table before it with the
\* descriptors "added" added and "removed" removed; the other descriptors
\* name the blobs they named.
TableStep(n, added, removed) ==
  /\ DOMAIN open_files'[n] = (DOMAIN open_files[n] \cup added) \ removed
  /\ \A fd \in DOMAIN open_files[n] \ removed :
       open_files'[n][fd].uri = open_files[n][fd].uri

\* C27: read_fd, read_line_fd and close of a descriptor that is not in the
\* open_files table fail with FileNotOpen and leave the table as it was;
\* open adds exactly one descriptor, the one it returns; a close that
\* succeeds removes exactly its descriptor; a descriptor enters the table
\* only by an open that returns it, so that once close(fd) has succeeded,
\* reads and closes of fd fail with FileNotOpen until an open returns fd.
C27_TableDiscipline ==
  [][\A n \in Nodes :
       /\ \A op \in {"read_fd", "read_line_fd", "close"} :
            (FdStep(n, op) /\ ~OpenBefore(n)) =>
              /\ out'.res = Err("FileNotOpen")
              /\ open_files'[n] = open_files[n]
       /\ \A op \in {"read_fd", "read_line_fd"} :
            (FdStep(n, op) /\ OpenBefore(n)) => TableStep(n, {}, {})
       /\ FdStep(n, "open") =>
            IF out'.res.kind = "Ok"
            THEN /\ out'.res.val \notin DOMAIN open_files[n]
                 /\ TableStep(n, {out'.res.val}, {})
            ELSE open_files'[n] = open_files[n]
       /\ (FdStep(n, "close") /\ OpenBefore(n)) =>
            /\ out'.res = Ok(<<>>)
            /\ TableStep(n, {}, {out'.fd})
       /\ \A fd \in DOMAIN open_files'[n] \ DOMAIN open_files[n] :
            out'.op = "open" /\ out'.loc.node = n /\ out'.res = Ok(fd)]_vars

\* Descriptor 1 was closed while descriptor 2 stayed open, and a read of
\* descriptor 1 has failed.
C27_Witness ==
  /\ out.op = "read_fd" /\ out.node = RootNode /\ out.loc.node = RootNode
  /\ out.fd = 1
  /\ out.res = Err("FileNotOpen")
  /\ DOMAIN open_files[RootNode] = {2}

(***************************************************************************)
(* Verified absence, checked under SpecFail.                               *)
(***************************************************************************)
\* The bytes of the blob at loc on its owning node.
OwnerCopy(loc) ==
  IF FileExists(World, loc.node, loc.uri) THEN FileData(World, loc.node, loc.uri)
  ELSE <<>>

\* The lookup of path in the directories as their owners hold them.
RECURSIVE OwnerFind(_)
OwnerFind(path) ==
  IF Len(path) = 1
  THEN search_directory_with_reader(path[1], OwnerCopy(RootLocation))
  ELSE LET parent == OwnerFind(SubSeq(path, 1, Len(path) - 1))
       IN  IF parent.kind = "Ok"
           THEN search_directory_with_reader(path[Len(path)], OwnerCopy(parent.val.loc))
           ELSE parent

\* C28: a find returns DoesNotExist only for verified absence: the
\* directory that should hold the missing component, as its owning node
\* holds it, has no entry of that name; a miss in a cached copy of a
\* directory whose owner cannot be reached is not answered DoesNotExist.
C28_VerifiedAbsence ==
  (out.op = "find" /\ out.res.kind = "DoesNotExist") =>
    OwnerFind(out.path).kind = "DoesNotExist"

\* C29: the file-access lock gives mutual exclusion on local blob I/O:
\* while a worker is inside write_local, between its existence check and
\* its write, no other task creates, writes, removes or appends to a blob
\* of the node.
C29_MutualExclusion ==
  [][\A n \in Nodes :
       (cl[n].pc = "checked" /\ cl'[n].pc = "checked") =>
         files'[n] = files[n]]_vars

\* C30: no lock of DaemonState is held by a task that is suspended on peer
\* I/O: a worker that dials a peer or waits for a response holds none.
C30_NoLockAcrossAwait ==
  \A n \in Nodes : cl[n].pc \in {"dial", "await"} => LocksHeld(cl[n]) = {}

(***************************************************************************)
(* Claims about blocking, connections and the cache order.                 *)
(***************************************************************************)
\* The worker of n waits for the response to its Read from m, which is
\* running and reachable over n's connection.
WaitsOn(n, m) ==
  /\ n # m
  /\ up[n] /\ up[m]
  /\ cl[n].pc = "await"
  /\ cl[n].loc.node = m
  /\ conns[n][m] = "live"

\* C31: two daemons that read a blob from each other never block each
\* other: in no reachable state does each worker hold its own daemon's
\* file-access lock while it waits for the other daemon's Read handler,
\* which needs that daemon's file-access lock to answer.
C31_NoMutualWait ==
  \A n \in Nodes, m \in Nodes :
    ~(/\ WaitsOn(n, m) /\ WaitsOn(m, n)
      /\ "file_access_lock" \in LocksHeld(cl[n])
      /\ "file_access_lock" \in LocksHeld(cl[m])
      /\ ~ENABLED ReadReceive(n)
      /\ ~ENABLED ReadReceive(m))

\* The workers of CacheNode with a sub-stream open on the connection to p.
InFlight(p) ==
  {k \in Workers : wk[k].pc = "opened" /\ wk[k].loc.node = p}

\* The connection n has stored for p stays the one stored while n runs: it
\* is not removed, and a dead one is not replaced by a new one.
ConnectionKept(n, p) ==
  (p \in DOMAIN conns[n] /\ up'[n]) =>
     /\ p \in DOMAIN conns'[n]
     /\ conns[n][p] # "live" => conns'[n][p] # "live"

\* C32: at most one request is in flight on a peer connection of a daemon
\* at a time, whatever its workers do at once, and the connection stored
\* for a node name is never removed or replaced while the daemon runs.
C32_OneInFlight ==
  /\ [](\A p \in Nodes : Cardinality(InFlight(p)) <= 1)
  /\ [][\A n \in Nodes, p \in Nodes : ConnectionKept(n, p)]_vars

\* One worker has its sub-stream open on the live connection to the root
\* while another, past stream_for, waits for the mutex of that connection.
C32_Witness ==
  \E k \in Workers, j \in Workers :
    /\ k # j
    /\ wk[k].pc = "opened" /\ wk[j].pc = "stream"
    /\ wk[k].loc.node = RootNode /\ wk[j].loc.node = RootNode
    /\ conns[CacheNode][RootNode] = "live"
    /\ ~ENABLED WriteOpen(j)

\* The place of the Location L in the order of CacheNode's requests, the
\* request of this step included.
AskedAt(L) ==
  IF \E i \in 1..Len(recent'.order) : recent'.order[i] = L
  THEN CHOOSE i \in 1..Len(recent'.order) : recent'.order[i] = L
  ELSE 0

\* The Locations this step evicts from the cache of the running CacheNode.
EvictedNow ==
  IF up[CacheNode] /\ up'[CacheNode]
  THEN CachedLocs(CacheNode) \ CachedLocs(CacheNode)'
  ELSE {}

\* The loop stops as soon as it may: when this step evicts, it leaves
\* used_cache_bytes within the budget or the cache empty, and before the
\* last eviction used_cache_bytes was above the budget.  (The entry evicted
\* last is the one just inserted when the cache is left empty.)
EvictionStops ==
  LET c == cache[CacheNode]
      gone == {i \in 1..Len(c) : c[i].loc \in EvictedNow}
      last == CHOOSE i \in gone : \A j \in gone : j <= i
      size == IF cache'[CacheNode] = <<>> /\ out'.res.kind = "Ok"
              THEN Len(out'.res.val)
              ELSE FileSize(World, CacheNode, c[last].uri)
  IN  gone # {} =>
        /\ used'[CacheNode] <= MaxCache \/ cache'[CacheNode] = <<>>
        /\ used'[CacheNode] + size > MaxCache

\* C33, as stated: an entry is evicted only if every entry that remains was
\* asked for more recently (by a read that inserted it or only looked it
\* up), and the eviction loop stops as soon as used_cache_bytes is within
\* the budget or the cache is empty.
C33_LruOrder ==
  [][/\ \A e \in EvictedNow, r \in CachedLocs(CacheNode)' : AskedAt(r) > AskedAt(e)
     /\ EvictionStops]_vars

\* C33, amended: the same, for every evicted entry and remaining entry of
\* which at least one was asked for since the daemon was last started;
\* entries restored from the snapshot and not asked for since keep the
\* order of the last insert before the daemon stopped.
C33_LruSinceStart ==
  [][/\ \A e \in EvictedNow, r \in CachedLocs(CacheNode)' :
          (e \in recent'.run \/ r \in recent'.run) => AskedAt(r) > AskedAt(e)
     /\ EvictionStops]_vars

\* A read of CacheNode has returned a body; of the three blobs asked for
\* since the start the least recently asked one is evicted, and the two
\* that remain were reordered by later requests.
C33_Witness ==
  /\ out.op = "read" /\ out.node = CacheNode /\ out.res.kind = "Ok"
  /\ Len(recent.order) = 3
  /\ recent.run = {recent.order[i] : i \in 1..3}
  /\ Len(cache[CacheNode]) = 2
  /\ cache[CacheNode][1].loc = recent.order[2]
  /\ cache[CacheNode][2].loc = recent.order[3]
  /\ cache[CacheNode][1].uri > cache[CacheNode][2].uri
  /\ used[CacheNode] <= MaxCache

(***************************************************************************)
(* Claims about name resolution, directories and placement.                *)
(***************************************************************************)
\* This step is a read by the worker of n of a blob of X for which
\* stream_for asks the root, and the root answers AddressFor(X) with
\* Some(id): n has no connection to X and no entry for X in known_hosts,
\* it holds a live connection to the root, and the root knows X.
ResolvesThroughRoot(n, X) ==
  /\ n # RootNode /\ X # n
  /\ up[n] /\ hosts[n].init
  /\ X \notin DOMAIN conns[n]
  /\ X \notin hosts[n].names
  /\ RootNode \in DOMAIN conns[n] /\ conns[n][RootNode] = "live"
  /\ AddressFor(World, X)
  /\ out'.op = "read" /\ out'.node = n /\ out'.loc.node = X

\* C34: once a node other than the root has resolved the name X through
\* the root (AddressFor(X) answered Some(id)), its known_hosts maps X.
C34_LearnedHostRecorded ==
  [][\A n \in AllNodes, X \in AllNodes :
       ResolvesThroughRoot(n, X) => X \in hosts'[n].names]_vars

\* C35: directory entries are append-only: an entry a directory blob
\* contains (a blob that is no backing file of the cache) stays in that
\* blob, at the same position, in every later state, whatever the clients
\* request.
C35_EntriesAppendOnly ==
  [][\A n \in Nodes :
       \A u \in DOMAIN files[n] \ CachedUris(n) :
         \A i \in 1..Len(files[n][u].data) :
           IsEntry(files[n][u].data[i]) =>
             /\ u \in DOMAIN files'[n]
             /\ Len(files'[n][u].data) >= i
             /\ files'[n][u].data[i] = files[n][u].data[i]]_vars

\* The positions of the entries called name in the directory data.
Named(data, name) ==
  {i \in 1..Len(data) : IsEntry(data[i]) /\ data[i].name = name}

\* This step writes the response to a place or mkdir of "a": the root
\* directory holds one entry "a"; the call whose blob the entry names
\* returns Ok(L) and its blob L is there; any other call returns
\* AlreadyExists with that entry, its own blob is removed and L is there.
PlaceOutcome ==
  LET dir == files'[RootNode][RootUri].data
      named == Named(dir, "a")
  IN  (out'.op \in {"place", "mkdir"} /\ out'.path = <<"a">>) =>
        /\ Cardinality(named) = 1
        /\ \A i \in named :
             IF dir[i].loc = out'.loc
             THEN /\ dir[i] = DirectoryEntry("a", out'.loc, out'.op = "mkdir")
                  /\ out'.res = Ok(out'.loc)
                  /\ out'.loc.uri \in DOMAIN files'[out'.loc.node]
             ELSE /\ out'.res = ErrWith("AlreadyExists", dir[i])
                  /\ out'.loc.uri \notin DOMAIN files'[out'.loc.node]
                  /\ dir[i].loc.uri \in DOMAIN files'[dir[i].loc.node]

\* The entry "a" and its blob, once there, stay as they are.
WinnerKept ==
  LET dir == files[RootNode][RootUri].data
  IN  \A i \in Named(dir, "a") :
        /\ Len(files'[RootNode][RootUri].data) >= i
        /\ files'[RootNode][RootUri].data[i] = dir[i]
        /\ dir[i].loc.uri \in DOMAIN files[dir[i].loc.node]
             => dir[i].loc.uri \in DOMAIN files'[dir[i].loc.node]

\* C36: of the calls that place the same path at the same time, on one
\* daemon or on several, exactly one returns Ok(L): the one whose entry
\* the directory holds; every other call returns AlreadyExists with that
\* entry, whose location is L, and leaves no blob of its own behind.
C36_OneWinner ==
  [][PlaceOutcome /\ WinnerKept]_vars

\* A client of CacheNode was refused with AlreadyExists while the call of
\* another client of the same daemon, whose entry was appended, has not
\* returned yet.
C36_Witness ==
  /\ out.op \in {"place", "mkdir"}
  /\ out.node = CacheNode
  /\ out.res.kind = "AlreadyExists"
  /\ \E j \in Workers :
       /\ wk[j].pc = "finish"
       /\ wk[j].succ.kind = "Ok"
       /\ wk[j].loc = out.res.val.loc
       /\ wk[j].loc # out.loc

\* C37: whenever a place or mkdir that allocated a blob returns an error,
\* whatever the reason (the parent path does not exist, its resolution
\* fails or is degraded, the parent's node is unreachable, the name is
\* taken), the blob it allocated on node "at" has been removed.
C37_FailedPlaceLeavesNothing ==
  [][(/\ out'.op \in {"place", "mkdir"}
      /\ out' # out
      /\ out'.res.kind # "Ok"
      /\ out'.loc # NoLocation)
       => out'.loc.uri \notin DOMAIN files'[out'.loc.node]]_vars

\* The entries other than "." and ".." that the directory at L holds.
PlacedAt(L) ==
  IF FileExists(World, L.node, L.uri)
  THEN {e \in EntriesOf(L.node, L.uri) : e.name \notin {".", ".."}}
  ELSE {}

\* The entries that placements appended: those of the root directory and
\* those of the directories the root directory names.
PlacedEntries ==
  PlacedAt(RootLocation)
    \cup UNION {PlacedAt(e.loc) : e \in {d \in PlacedAt(RootLocation) : d.is_dir}}

\* C38: in every reachable state every entry that a place or mkdir caused
\* to be appended to a parent directory refers to a blob that exists on the
\* node the entry names; the rollback never removes a blob whose entry the
\* parent's node did append.
C38_NoDanglingEntries ==
  \A e \in PlacedEntries : FileExists(World, e.loc.node, e.loc.uri)

(***************************************************************************)
(* Freshness of a warm cache, checked under SpecRead.                      *)
(***************************************************************************)
\* CacheNode's copy of L differs from the blob: the blob was overwritten or
\* appended to after the copy was written.
StaleCopy(L) ==
  /\ CachedCopy(L)
  /\ FileData(World, CacheNode, CopyUri(L)) # FileData(World, L.node, L.uri)

\* The step answers a read of L with the owner's current content.
ReadFresh(L) ==
  out'.res = Ok(FileData(World, L.node, L.uri))

\* After the step the cache holds a copy of L with the blob's content.
CopyReplaced(L) ==
  /\ CachedCopy(L)'
  /\ FileData(World, CacheNode, CopyUri(L))' = FileData(World, L.node, L.uri)

\* C39: when CacheNode holds a copy of L and the blob at L was overwritten
\* or appended to on its owner after the copy was written, the next
\* successful read of L with the owner reachable returns the owner's
\* current content, not the cached body, and replaces the cached body with
\* it.
C39_WarmCacheFresh ==
  [][\A L \in RemoteBlobs :
       (StaleCopy(L) /\ ReadStep(L) /\ out'.res.kind = "Ok") =>
         ReadFresh(L) /\ CopyReplaced(L)]_vars

\* stream_for of n cannot resolve X: n has no connection to X and its
\* known_hosts does not map X, and n is the root, or n holds a live
\* connection to the root and the root answers AddressFor(X) with None.
Unresolvable(n, X) ==
  /\ X # n
  /\ up[n] /\ hosts[n].init
  /\ X \notin DOMAIN conns[n]
  /\ X \notin hosts[n].names
  /\ \/ n = RootNode
     \/ /\ RootNode \in DOMAIN conns[n] /\ conns[n][RootNode] = "live"
        /\ ~AddressFor(World, X)

\* C40: when the name cannot be resolved (on the root a name in neither
\* connections nor known_hosts, on another node a name the root answers
\* None for), stream_for returns unavailable, dials no one, and leaves
\* connections and known_hosts as they were.
C40_UnresolvedUnchanged ==
  /\ [](\A n \in AllNodes : \A X \in AllNodes :
          Unresolvable(n, X) =>
            /\ stream_for(World, n, X) = [w |-> World, conn |-> "none"]
            /\ dialed(World, n, X) = {})
  /\ [][(ReadStep(LateBlob) /\ Unresolvable(CacheNode, LateNode)) =>
          /\ out'.res.kind \in {"NotAccessible", "OnlyInCache"}
          /\ conns' = conns
          /\ hosts' = hosts]_vars

\* The client of CacheNode read a blob of LateNode, which is running but
\* which the root does not know: the root was asked over the live
\* connection, answered None, and the read was refused; neither CacheNode
\* nor the root can resolve the name.
C40_Witness ==
  /\ out.op = "read" /\ out.node = CacheNode /\ out.loc = LateBlob
  /\ out.res.kind = "NotAccessible"
  /\ up[LateNode]
  /\ Unresolvable(CacheNode, LateNode)
  /\ Unresolvable(RootNode, LateNode)

====
